---- MODULE Spec2Model ----
(***************************************************************************)
(* A model of MidiPlayer (src/unnamed/part_005, the current revision of    *)
(* src/MidiPlayer.js): the played/pending event lists, the clock fields,   *)
(* the public operations and the asynchronous dispatch loop of play(); and *)
(* of MidiParser (src/src/MidiParser.js): MidiFile on the bytes of a file, *)
(* the Replayer and _formatReplayerData.                                   *)
(*                                                                         *)
(* Time.  (new Date()).getTime() is the integer `now` (milliseconds).      *)
(* _currentTime and _startingTime are fractions in JavaScript (play()      *)
(* divides by the speed); they are kept here as integers counted in units  *)
(* of 1/Scale ms, so that every division by a speed the model uses is      *)
(* exact.  Timestamps and setTime arguments are whole milliseconds.        *)
(*                                                                         *)
(* Callbacks.  `fired` is the sequence of objects handed to                *)
(* triggerCallbacks during the last step.  In the specifications of the    *)
(* playback and the timeline no callback is registered; SpecCallbacks has  *)
(* the registry with callbacks that call back into it, SpecLoop the        *)
(* 'finish' callback that restarts the playback.                           *)
(*                                                                         *)
(* Dispatch loops.  Every play() call starts one `while` loop; a loop      *)
(* suspended in `await this._waitForEvent(nextEvent)` is an entry of       *)
(* `loops` holding the captured nextEvent and the instant its timer fires. *)
(* The loop of the older revision (src/src/MidiPlayer.js), which shifts    *)
(* the event off the pending list before it waits, is PlayShift/WakeShift. *)
(***************************************************************************)
EXTENDS Integers, Sequences, FiniteSets, TLC

\* ------------------------------------------------------------------ bounds
\* number of calls of the public API in one behaviour
MaxCalls == 3
\* the wall clock runs from 0 to MaxNow
MaxNow == 1
\* timestamps of events are 0..MaxTs
MaxTs == 2
\* number of event objects alive at once
MaxEvents == 2
\* number of calls in one behaviour when every operation of the player may be called
MaxOps == 2
\* reverseMidiData is tried on timelines of up to MaxLen events, stamped 0..MaxRevTs
MaxLen == 4
MaxRevTs == 3
\* callback ids run from 0 to MaxCallbacks - 1
MaxCallbacks == 3
\* number of calls in one behaviour of the callback registry
MaxCallbackOps == 4
\* the instant up to which the clock of a looping player is followed
MaxLoopNow == 5
\* number of nested play() calls the call stack has room for
MaxDepth == 3
\* number of events of a decoded file, all tracks together
MaxFileEvents == 3
\* number of events of a list given to _formatReplayerData
MaxData == 3

\* units of _currentTime/_startingTime per millisecond
Scale == 2 ^ MaxCalls

Speeds == {1, 2}
Types == {"noteOn", "noteOff"}
Notes == {60}
\* note shifts of loadParsedMidi: none, and the -21 the tutorial uses for a piano
NoteShifts == {0, -21}

VARIABLES
    events,         \* this._events: the pending events
    playedEvents,   \* this._playedEvents
    currentTime,    \* this._currentTime, in 1/Scale ms
    startingTime,   \* this._startingTime: <<>> while undefined/NaN, else <<t>>, t in 1/Scale ms
    speed,          \* this._speed, as the number that its uses (/ and *) convert it to
    playing,        \* this._playing (undefined counts as FALSE)
    duration,       \* this._duration, in ms
    now,            \* (new Date()).getTime()
    loops,          \* the suspended play() loops, in the order their timers were set
    fired,          \* the objects passed to triggerCallbacks during the last step
    threw,          \* the last step was an API call that threw (or whose promise rejected)
    last,           \* the name of the last step
    calls,          \* number of API calls made so far
    aliased,        \* this._events is the array object the caller passed to loadParsedMidi
    callbacks,      \* this._callbacks: records [id, targetEvent, callback], in registration order
    highestCallbackId,  \* this._highestCallbackId
    invoked,        \* the callback invocations of the last step: records [id, event]
    returned,       \* what the last call returned: <<>> for nothing, else <<value>>
    registered,     \* the target events of all callbacks ever registered; id i is at i + 1
    removed,        \* the ids of the callbacks removed so far
    round,          \* the events dispatched since the last 'finish'
    data,           \* the argument of MidiFile: the bytes of a .mid file
    midiFile,       \* what MidiFile returned: [header, tracks]
    temporal,       \* Replayer's list of merged events with timestamps
    formattedData,  \* what _formatReplayerData returned
    written         \* the file that `data` holds, as it was written: chunks and events

\* the callback registry (with what the model remembers of its past) and the parser
cbvars == <<callbacks, highestCallbackId, invoked, returned, registered, removed, round>>
parservars == <<data, midiFile, temporal, formattedData, written>>

vars == <<events, playedEvents, currentTime, startingTime, speed, playing,
          duration, now, loops, fired, threw, last, calls, aliased,
          callbacks, highestCallbackId, invoked, returned, registered, removed, round,
          data, midiFile, temporal, formattedData, written>>

\* ----------------------------------------------------------------- helpers
Range(s) == {s[i] : i \in 1..Len(s)}

Ceil(a, b) == -((-a) \div b)

\* { type: name }, what triggerCallbacks makes of a string argument
Named(name) == [type |-> name]

\* [...this._playedEvents, ...this._events]
getMidiEvents == playedEvents \o events

Ascending(s) == \A i \in 1..(Len(s) - 1) : s[i].timestamp <= s[i + 1].timestamp

\* object identity: the k-th smallest id that no event object in `used` carries
RECURSIVE FreshFrom(_, _, _)
FreshFrom(used, k, i) ==
    IF i \in used THEN FreshFrom(used, k, i + 1)
    ELSE IF k = 1 THEN i ELSE FreshFrom(used, k - 1, i + 1)

HeldIds == {loops[i].nextEvent.id : i \in 1..Len(loops)}
UsedIds == {e.id : e \in Range(events) \cup Range(playedEvents)} \cup HeldIds
FreshId == FreshFrom(UsedIds, 1, 1)

\* _updateDuration
UpdateDuration(ev, pl) ==
    IF Len(ev) > 0 THEN ev[Len(ev)].timestamp
    ELSE IF Len(pl) > 0 THEN pl[Len(pl)].timestamp
    ELSE 0

\* getCurrentTime: the value it returns (and stores) given the clock fields
GetTime(pl, st, sp, cur) ==
    IF pl THEN (now * Scale - st[1]) * sp ELSE cur

\* getEventsByTimeRange(startTime, endTime), both in 1/Scale ms
getEventsByTimeRange(startTime, endTime) ==
    SelectSeq(getMidiEvents,
              LAMBDA event : /\ startTime <= event.timestamp * Scale
                             /\ event.timestamp * Scale <= endTime)

\* getNextEventsByTime(miliseconds)
getNextEventsByTime(miliseconds) ==
    getEventsByTimeRange(currentTime, currentTime + miliseconds * Scale)

\* getPreviousEventsByTime(miliseconds)
getPreviousEventsByTime(miliseconds) ==
    getEventsByTimeRange(currentTime - miliseconds * Scale, currentTime)

\* ------------------------------------------------------------ pure helpers
\* locationOf(element, array, comparer, start, end) with the comparer of addEvent,
\* (a, b) => a.timestamp - b.timestamp; indexes are 0-based as in the source and an
\* omitted start/end is 0 (`start || 0`, `end || array.length` treat both alike)
RECURSIVE locationOf(_, _, _, _)
locationOf(element, array, start, end) ==
    IF Len(array) = 0 THEN -1
    ELSE LET s == start
             e == IF end = 0 THEN Len(array) ELSE end
             middle == (s + e) \div 2
             diff == element.timestamp - array[middle + 1].timestamp
             comparisonResult == IF diff > 0 THEN 1 ELSE IF diff < 0 THEN -1 ELSE 0
         IN  IF e - s <= 1
             THEN (IF comparisonResult = -1 THEN middle ELSE middle + 1)
             ELSE CASE comparisonResult = -1 -> locationOf(element, array, s, middle)
                    [] comparisonResult = 0 -> middle
                    [] comparisonResult = 1 -> locationOf(element, array, middle, e)

\* array.splice(location, 0, element): a negative location counts from the end,
\* and the start index is clamped to 0..length
splice(array, location, element) ==
    LET len == Len(array)
        at == IF location < 0 THEN (IF len + location < 0 THEN 0 ELSE len + location)
              ELSE IF location > len THEN len ELSE location
    IN  SubSeq(array, 1, at) \o <<element>> \o SubSeq(array, at + 1, len)

\* the property names of an event object (id is the object's identity, not a property)
Keys(obj) == DOMAIN obj \ {"id"}

\* objContainsObj with `some` in place of `every`: one equal property is enough
objContainsSome(original, comparison) ==
    \E key \in Keys(comparison) : key \in Keys(original) /\ original[key] = comparison[key]

\* objContainsObj(original, comparison)
objContainsObj(original, comparison) ==
    /\ Keys(comparison) \subseteq Keys(original)
    /\ \A key \in Keys(comparison) : original[key] = comparison[key]

\* array.filter(event => !objContainsObj(event, search))
RemoveMatching(array, search) == SelectSeq(array, LAMBDA event : ~objContainsObj(event, search))

\* setTime, first loop: pending events before `miliseconds` move to the end of played
RECURSIVE MoveForward(_, _, _)
MoveForward(ev, pl, miliseconds) ==
    IF Len(ev) > 0 /\ miliseconds > ev[1].timestamp
    THEN MoveForward(Tail(ev), Append(pl, ev[1]), miliseconds)
    ELSE <<ev, pl>>

\* MoveBackward with the comparison `<` in place of `<=`
RECURSIVE MoveBackwardStrict(_, _, _)
MoveBackwardStrict(ev, pl, miliseconds) ==
    IF Len(pl) > 0 /\ miliseconds < pl[Len(pl)].timestamp
    THEN MoveBackwardStrict(<<pl[Len(pl)]>> \o ev, SubSeq(pl, 1, Len(pl) - 1), miliseconds)
    ELSE <<ev, pl>>

\* setTime, second loop: played events at or after `miliseconds` move back to the front of pending
RECURSIVE MoveBackward(_, _, _)
MoveBackward(ev, pl, miliseconds) ==
    IF Len(pl) > 0 /\ miliseconds <= pl[Len(pl)].timestamp
    THEN MoveBackward(<<pl[Len(pl)]>> \o ev, SubSeq(pl, 1, Len(pl) - 1), miliseconds)
    ELSE <<ev, pl>>

\* setTime without its second loop
setTimeForwardOnly(ev, pl, st, cur, miliseconds) ==
    LET fwd == MoveForward(ev, pl, miliseconds)
    IN  [events |-> fwd[1],
         playedEvents |-> fwd[2],
         startingTime |-> IF st = <<>> THEN <<>> ELSE <<st[1] + (miliseconds * Scale - cur)>>,
         currentTime |-> miliseconds * Scale]

\* setTime(miliseconds) on the fields it touches
setTime(ev, pl, st, cur, miliseconds) ==
    LET fwd == MoveForward(ev, pl, miliseconds)
        bwd == MoveBackward(fwd[1], fwd[2], miliseconds)
    IN  [events |-> bwd[1],
         playedEvents |-> bwd[2],
         startingTime |-> IF st = <<>> THEN <<>> ELSE <<st[1] + (miliseconds * Scale - cur)>>,
         currentTime |-> miliseconds * Scale]

\* pause() without its isPlaying() guard
pauseUnguarded(pl) == [playing |-> FALSE, fired |-> <<Named("pause")>>]

\* pause() on the fields it touches
pause(pl) == [playing |-> FALSE, fired |-> IF pl THEN <<Named("pause")>> ELSE <<>>]

\* the instant at which a timer set now by setTimeout(resolve, timeToWait) fires:
\* timeToWait = delta / speed ms (delta in 1/Scale ms); a negative delay counts as 0;
\* a fractional delay is cut to whole milliseconds (up = FALSE) or lasts until the
\* clock shows the next one (up = TRUE), depending on the platform's timers
TimerInstant(delta, sp, up) ==
    LET d == IF delta < 0 THEN 0 ELSE delta
    IN  IF up THEN now + Ceil(d, sp * Scale) ELSE now + d \div (sp * Scale)

\* _waitForEvent(event): the current time it stores and the timer it sets
waitForEvent(event, isPlaying, st, sp, cur, up) ==
    LET t == GetTime(isPlaying, st, sp, cur)
        deltaTime == event.timestamp * Scale - t
    IN  [currentTime |-> t, wakeAt |-> TimerInstant(deltaTime, sp, up)]

\* the end of play() without its 'finish'
LoopExitNoFinish(ev, isPlaying) == pause(isPlaying).fired

\* the end of play(), after its while loop: this.pause(), and 'finish' when nothing is pending
LoopExit(ev, isPlaying) ==
    pause(isPlaying).fired \o (IF Len(ev) = 0 THEN <<Named("finish")>> ELSE <<>>)

\* play() without the check after its await
BreakNever(isPlaying) == FALSE

\* `if (!this._playing) break;` after the await
BreakAfterWait(isPlaying) == ~isPlaying

\* play() from the head of its while loop to its next suspension or to its end:
\* ev, isPlaying, st, sp, cur are the fields as the loop head finds them, lps the other
\* suspended loops, frd what the step has fired so far
RunLoop(ev, isPlaying, st, sp, cur, lps, frd, up) ==
    IF isPlaying /\ Len(ev) > 0
    THEN LET nextEvent == ev[1]
             w == waitForEvent(nextEvent, isPlaying, st, sp, cur, up)
         IN  [currentTime |-> w.currentTime,
              playing |-> TRUE,
              loops |-> Append(lps, [nextEvent |-> nextEvent, wakeAt |-> w.wakeAt]),
              fired |-> frd]
    ELSE [currentTime |-> cur,
          playing |-> FALSE,
          loops |-> lps,
          fired |-> frd \o LoopExit(ev, isPlaying)]

\* timestamp-sorted lists of up to two fresh event objects (ids not in `used`)
SortedLists(used) ==
    {<<>>}
    \cup {<<[id |-> FreshFrom(used, 1, 1), timestamp |-> t, type |-> "noteOn", note |-> 60]>> :
            t \in 0..MaxTs}
    \cup {<<[id |-> FreshFrom(used, 1, 1), timestamp |-> p[1], type |-> "noteOn", note |-> 60],
            [id |-> FreshFrom(used, 2, 1), timestamp |-> p[2], type |-> "noteOff", note |-> 60]>> :
            p \in {q \in (0..MaxTs) \X (0..MaxTs) : q[1] <= q[2]}}

\* the arguments of loadParsedMidi
LoadInputs == SortedLists(HeldIds)

\* the callback fields as the constructor leaves them, nothing remembered
NoCallbacks ==
    /\ callbacks = <<>>
    /\ highestCallbackId = -1
    /\ invoked = <<>>
    /\ returned = <<>>
    /\ registered = <<>>
    /\ removed = {}
    /\ round = <<>>

\* no file has been given to the parser
NoParser ==
    /\ data = <<>>
    /\ midiFile = <<>>
    /\ temporal = <<>>
    /\ formattedData = <<>>
    /\ written = <<>>

\* a player as constructed (empty list) or as a first loadParsedMidi leaves it
Init ==
    /\ \E evs \in SortedLists({}) :
          /\ events = evs
          /\ duration = UpdateDuration(evs, <<>>)
          /\ aliased = (evs # <<>>)
    /\ playedEvents = <<>>
    /\ currentTime = 0
    /\ startingTime = <<>>
    /\ speed = 1
    /\ playing = FALSE
    /\ now = 0
    /\ loops = <<>>
    /\ fired = <<>>
    /\ threw = FALSE
    /\ last = "new"
    /\ calls = 0
    /\ NoCallbacks
    /\ NoParser

\* the wall clock advances by one millisecond: a timer that is due fires first, and
\* the clock is followed up to MaxNow and for as long as a timer is set
Tick ==
    /\ \A i \in 1..Len(loops) : loops[i].wakeAt > now
    /\ now < MaxNow \/ Len(loops) > 0
    /\ now' = now + 1
    /\ fired' = <<>>
    /\ threw' = FALSE
    /\ last' = "tick"
    /\ UNCHANGED <<events, playedEvents, currentTime, startingTime, speed, playing,
                   duration, loops, calls, aliased>>
    /\ UNCHANGED <<cbvars, parservars>>

\* one call of a method of the timeline or of the playback; no callback is registered
Call(op) ==
    /\ calls < MaxCalls
    /\ calls' = calls + 1
    /\ last' = op
    /\ UNCHANGED <<cbvars, parservars>>

\* play()
Play(up) ==
    /\ Call("play")
    /\ LET t == GetTime(playing, startingTime, speed, currentTime)
           st == <<now * Scale - t \div speed>>
           r == RunLoop(events, TRUE, st, speed, t, loops, <<Named("play")>>, up)
       IN  /\ startingTime' = st
           /\ currentTime' = r.currentTime
           /\ playing' = r.playing
           /\ loops' = r.loops
           /\ fired' = r.fired
    /\ threw' = FALSE
    /\ UNCHANGED <<events, playedEvents, speed, duration, now, aliased>>

\* the loop whose timer fires next: the earliest due one, the first set among equals
DueLoop(i) ==
    /\ i \in 1..Len(loops)
    /\ loops[i].wakeAt <= now
    /\ \A j \in 1..Len(loops) :
          \/ loops[j].wakeAt > loops[i].wakeAt
          \/ (loops[j].wakeAt = loops[i].wakeAt /\ j >= i)

RemoveAt(s, i) == SubSeq(s, 1, i - 1) \o SubSeq(s, i + 1, Len(s))

\* the timer of a suspended loop fires and play() resumes after its await
Wake(up) ==
    \E i \in 1..Len(loops) :
        /\ DueLoop(i)
        /\ LET nextEvent == loops[i].nextEvent
               rest == RemoveAt(loops, i)
           IN  IF BreakAfterWait(playing)
               THEN /\ fired' = LoopExit(events, playing)
                    /\ loops' = rest
                    /\ playing' = FALSE
                    /\ UNCHANGED <<events, playedEvents, currentTime>>
               ELSE LET ev == IF Len(events) > 0 THEN Tail(events) ELSE events
                        r == RunLoop(ev, playing, startingTime, speed, currentTime,
                                     rest, <<nextEvent>>, up)
                    IN  /\ events' = ev
                        /\ playedEvents' = Append(playedEvents, nextEvent)
                        /\ currentTime' = r.currentTime
                        /\ playing' = r.playing
                        /\ loops' = r.loops
                        /\ fired' = r.fired
        /\ threw' = FALSE
        /\ last' = "wake"
        /\ UNCHANGED <<startingTime, speed, duration, now, calls, aliased>>
        /\ UNCHANGED <<cbvars, parservars>>

\* pause()
Pause ==
    /\ Call("pause")
    /\ playing' = FALSE
    /\ fired' = pause(playing).fired
    /\ threw' = FALSE
    /\ UNCHANGED <<events, playedEvents, currentTime, startingTime, speed, duration, now,
                   loops, aliased>>

\* stop()
Stop ==
    /\ Call("stop")
    /\ LET s == setTime(events, playedEvents, startingTime, currentTime, 0)
       IN  /\ events' = s.events
           /\ playedEvents' = s.playedEvents
           /\ startingTime' = s.startingTime
           /\ currentTime' = s.currentTime
    /\ playing' = FALSE
    /\ fired' = pause(playing).fired \o <<Named("stop")>>
    /\ threw' = FALSE
    /\ UNCHANGED <<speed, duration, now, loops, aliased>>

\* setTime(miliseconds)
SetTime(miliseconds) ==
    /\ Call("setTime")
    /\ LET s == setTime(events, playedEvents, startingTime, currentTime, miliseconds)
       IN  /\ events' = s.events
           /\ playedEvents' = s.playedEvents
           /\ startingTime' = s.startingTime
           /\ currentTime' = s.currentTime
    /\ fired' = <<>>
    /\ threw' = FALSE
    /\ UNCHANGED <<speed, playing, duration, now, loops, aliased>>

\* getCurrentTime()
GetCurrentTime ==
    /\ Call("getCurrentTime")
    /\ currentTime' = GetTime(playing, startingTime, speed, currentTime)
    /\ fired' = <<>>
    /\ threw' = FALSE
    /\ UNCHANGED <<events, playedEvents, startingTime, speed, playing, duration, now,
                   loops, aliased>>

\* isNaN(speed) || speed <= 0, both of which convert the argument with Number()
\* first. The argument is <<>> when Number() makes it NaN (NaN, undefined, "fast"),
\* <<n>> for the number n and <<n, "string">> for a string that Number() reads as
\* n, such as "2"
InvalidSpeed(v) == v = <<>> \/ v[1] <= 0

\* setSpeed(v)
SetSpeed(v) ==
    /\ Call("setSpeed")
    /\ IF InvalidSpeed(v)
       THEN threw' = TRUE /\ UNCHANGED speed
       ELSE threw' = FALSE /\ speed' = v[1]
    /\ fired' = <<>>
    /\ UNCHANGED <<events, playedEvents, currentTime, startingTime, playing, duration, now,
                   loops, aliased>>

\* the check of the older revision (src/src/MidiPlayer.js), which also asks for `note`
MissingRequiredWithNote(newEvent) ==
    \/ "timestamp" \notin DOMAIN newEvent
    \/ "note" \notin DOMAIN newEvent
    \/ "type" \notin DOMAIN newEvent

\* !newEvent.hasOwnProperty('timestamp') || !newEvent.hasOwnProperty('type')
MissingRequired(newEvent) ==
    "timestamp" \notin DOMAIN newEvent \/ "type" \notin DOMAIN newEvent

\* the timeline may take the event: at most MaxEvents event objects are alive at once
HasRoom(newEvent) == MissingRequired(newEvent) \/ Len(getMidiEvents) < MaxEvents

\* addEvent(newEvent). The method asks getCurrentTime() twice, once to choose the
\* array it searches with locationOf and once to choose the array it splices into;
\* while playing each call reads the clock, and `ticked` says that the clock showed
\* the next millisecond at the second one
AddEvent(newEvent, ticked) ==
    /\ Call("addEvent")
    /\ ticked => (playing /\ ~MissingRequired(newEvent))
    /\ now' = IF ticked THEN now + 1 ELSE now
    /\ IF MissingRequired(newEvent)
       THEN /\ threw' = TRUE
            /\ UNCHANGED <<events, playedEvents, currentTime, duration>>
       ELSE LET first == GetTime(playing, startingTime, speed, currentTime)
                second == IF ticked THEN (now' * Scale - startingTime[1]) * speed ELSE first
                eventArray == IF newEvent.timestamp * Scale > first THEN events ELSE playedEvents
                location == locationOf(newEvent, eventArray, 0, 0)
                toPending == newEvent.timestamp * Scale > second
                ev == IF toPending THEN splice(events, location, newEvent) ELSE events
                pl == IF toPending THEN playedEvents ELSE splice(playedEvents, location, newEvent)
            IN  /\ threw' = FALSE
                /\ currentTime' = second
                /\ events' = ev
                /\ playedEvents' = pl
                /\ duration' = UpdateDuration(ev, pl)
    /\ fired' = <<>>
    /\ UNCHANGED <<startingTime, speed, playing, loops, aliased>>

\* removeEvents(search): both fields are assigned the new arrays that filter returns
RemoveEvents(search) ==
    /\ Call("removeEvents")
    /\ playedEvents' = RemoveMatching(playedEvents, search)
    /\ events' = RemoveMatching(events, search)
    /\ fired' = <<>>
    /\ threw' = FALSE
    /\ aliased' = FALSE
    /\ UNCHANGED <<currentTime, startingTime, speed, playing, duration, now, loops>>

\* reset(): stop() and removeEvents({})
Reset ==
    /\ Call("reset")
    /\ LET s == setTime(events, playedEvents, startingTime, currentTime, 0)
       IN  /\ events' = RemoveMatching(s.events, <<>>)
           /\ playedEvents' = RemoveMatching(s.playedEvents, <<>>)
           /\ startingTime' = s.startingTime
           /\ currentTime' = s.currentTime
    /\ playing' = FALSE
    /\ fired' = pause(playing).fired \o <<Named("stop")>>
    /\ threw' = FALSE
    /\ aliased' = FALSE
    /\ UNCHANGED <<speed, duration, now, loops>>

\* loadParsedMidi without the note shift
ShiftNotesNever(evs, noteShift) == evs

\* event.note += noteShift on every event (skipped when noteShift is 0 or omitted)
ShiftNotes(evs, noteShift) ==
    IF noteShift = 0 THEN evs
    ELSE [i \in 1..Len(evs) |-> [evs[i] EXCEPT !.note = @ + noteShift]]

\* the body of loadParsedMidi(evs, noteShift): reset() = stop() and removeEvents({}),
\* then `this._events = events`, the note shift and _updateDuration()
loadParsedMidi(evs, noteShift) ==
    /\ LET s == setTime(events, playedEvents, startingTime, currentTime, 0)
           ev == ShiftNotes(evs, noteShift)
       IN  /\ events' = ev
           /\ playedEvents' = <<>>
           /\ startingTime' = s.startingTime
           /\ currentTime' = s.currentTime
           /\ duration' = UpdateDuration(ev, <<>>)
    /\ playing' = FALSE
    /\ fired' = pause(playing).fired \o <<Named("stop")>>
    /\ UNCHANGED <<speed, now, loops>>

\* loadParsedMidi(evs, noteShift) called by the user: `this._events = events` keeps
\* the caller's array, the map of a note shift makes a new one
LoadParsedMidi(evs, noteShift) ==
    /\ Call("loadParsedMidi")
    /\ loadParsedMidi(evs, noteShift)
    /\ threw' = FALSE
    /\ aliased' = (noteShift = 0)

\* loadFromDataUrl / loadFromUint8Array with the reset done before the decoding
LoadFromResetFirst(op, parsedMidi, noteShift) ==
    /\ Call(op)
    /\ IF parsedMidi = <<>>
       THEN /\ threw' = TRUE
            /\ loadParsedMidi(<<>>, 0)
       ELSE /\ threw' = FALSE
            /\ loadParsedMidi(parsedMidi[1], noteShift)
    /\ aliased' = FALSE

\* loadFromDataUrl(midi, noteShift) and loadFromUint8Array(midi, noteShift): the
\* promise executor decodes first, then calls loadParsedMidi and resolves with
\* getMidiEvents(). parsedMidi is <<>> when the decoding throws (atob on a bad
\* string, MidiFile on a bad header, chunk or event), which rejects the promise,
\* and <<list>> when it returns the formatted events `list`, a new array
LoadFrom(op, parsedMidi, noteShift) ==
    /\ Call(op)
    /\ IF parsedMidi = <<>>
       THEN /\ threw' = TRUE
            /\ fired' = <<>>
            /\ UNCHANGED <<events, playedEvents, currentTime, startingTime, speed, playing,
                           duration, now, loops, aliased>>
       ELSE /\ threw' = FALSE
            /\ loadParsedMidi(parsedMidi[1], noteShift)
            /\ aliased' = FALSE

\* the caller pushes `element` on an array it holds: the one it passed to
\* loadParsedMidi (passed = TRUE) or one that getMidiEvents() returned
CallerPush(element, passed) ==
    /\ Call("push")
    /\ Len(getMidiEvents) < MaxEvents
    /\ events' = IF passed /\ aliased THEN Append(events, element) ELSE events
    /\ fired' = <<>>
    /\ threw' = FALSE
    /\ UNCHANGED <<playedEvents, currentTime, startingTime, speed, playing, duration, now,
                   loops, aliased>>

\* the caller pops the last element of an array it holds
CallerPop(passed) ==
    /\ Call("pop")
    /\ events' = IF passed /\ aliased /\ events # <<>>
                 THEN SubSeq(events, 1, Len(events) - 1) ELSE events
    /\ fired' = <<>>
    /\ threw' = FALSE
    /\ UNCHANGED <<playedEvents, currentTime, startingTime, speed, playing, duration, now,
                   loops, aliased>>

\* array.reverse()
Reverse(array) == [i \in 1..Len(array) |-> array[Len(array) + 1 - i]]

\* events[i].note === event.note (two events without `note` compare equal:
\* undefined === undefined)
SameNote(a, b) ==
    IF "note" \in DOMAIN a /\ "note" \in DOMAIN b THEN a.note = b.note
    ELSE "note" \notin DOMAIN a /\ "note" \notin DOMAIN b

\* reverseMidiData, second forEach: every noteOff is mirrored around the first
\* noteOn of its note that follows it (noteOn timestamps are only read here)
MirrorNoteOffs(array) ==
    [index \in 1..Len(array) |->
        LET event == array[index]
            found == {i \in (index + 1)..Len(array) :
                        array[i].type = "noteOn" /\ SameNote(array[i], event)}
        IN  IF event.type = "noteOff" /\ found # {}
            THEN LET i == CHOOSE j \in found : \A k \in found : j <= k
                     timeDiff == array[i].timestamp - event.timestamp
                 IN  [event EXCEPT !.timestamp = @ + 2 * timeDiff]
            ELSE event]

\* events.sort((a, b) => a.timestamp - b.timestamp): events of equal timestamp keep
\* their order (every engine sorts arrays this short stably)
RECURSIVE SortByTimestamp(_)
SortByTimestamp(array) ==
    IF Len(array) <= 1 THEN array
    ELSE LET e == array[Len(array)]
             front == SortByTimestamp(SubSeq(array, 1, Len(array) - 1))
             n == Cardinality({i \in 1..Len(front) : front[i].timestamp <= e.timestamp})
         IN  SubSeq(front, 1, n) \o <<e>> \o SubSeq(front, n + 1, Len(front))

\* reverseMidiData without the shift that lets the first event start at 0
ReversedNoOffset(array, d) ==
    LET flipped == [i \in 1..Len(array) |->
                       [Reverse(array)[i] EXCEPT !.timestamp = d - @]]
    IN  SortByTimestamp(MirrorNoteOffs(flipped))

\* the list that reverseMidiData hands to loadParsedMidi, for the non-empty list
\* `array` of getMidiEvents() and the duration d of getDuration()
Reversed(array, d) ==
    LET flipped == [i \in 1..Len(array) |->
                       [Reverse(array)[i] EXCEPT !.timestamp = d - @]]
        sorted == SortByTimestamp(MirrorNoteOffs(flipped))
        timeOffset == sorted[1].timestamp
    IN  [i \in 1..Len(sorted) |-> [sorted[i] EXCEPT !.timestamp = @ - timeOffset]]

\* the event object a suspended loop holds, after reverseMidiData has rewritten the
\* timestamps of the timeline's objects in place
Rewritten(event, array) ==
    IF \E i \in 1..Len(array) : array[i].id = event.id
    THEN array[CHOOSE i \in 1..Len(array) : array[i].id = event.id]
    ELSE event

\* reverseMidiData(): on an empty timeline `events[0].timestamp` throws a TypeError
\* before anything is written; else the reversed list is loaded
ReverseMidiData ==
    /\ Call("reverseMidiData")
    /\ IF getMidiEvents = <<>>
       THEN /\ threw' = TRUE
            /\ fired' = <<>>
            /\ UNCHANGED <<events, playedEvents, currentTime, startingTime, playing,
                           duration, loops, aliased>>
       ELSE LET ev == Reversed(getMidiEvents, duration)
                s == setTime(events, playedEvents, startingTime, currentTime, 0)
            IN  /\ threw' = FALSE
                /\ events' = ev
                /\ playedEvents' = <<>>
                /\ startingTime' = s.startingTime
                /\ currentTime' = s.currentTime
                /\ duration' = UpdateDuration(ev, <<>>)
                /\ playing' = FALSE
                /\ fired' = pause(playing).fired \o <<Named("stop")>>
                /\ loops' = [i \in 1..Len(loops) |->
                                [loops[i] EXCEPT !.nextEvent = Rewritten(@, ev)]]
                /\ aliased' = FALSE
    /\ UNCHANGED <<speed, now>>

\* ------------------------------------------------------------------ inputs
\* a fresh event object with the given properties
NewEvent(timestamp, type, note) ==
    [id |-> FreshId, timestamp |-> timestamp, type |-> type, note |-> note]

\* arguments of addEvent: complete events, one without timestamp, one without type
AddInputs ==
    {NewEvent(t, "noteOn", n) : t \in 0..MaxTs, n \in Notes}
    \cup {[id |-> FreshId, type |-> "noteOn", note |-> 60]}
    \cup {[id |-> FreshId, timestamp |-> 0, note |-> 60]}

\* further arguments of addEvent: an event without note, and the empty object
AddInputsMore ==
    {[id |-> FreshId, timestamp |-> 1, type |-> "noteOn"], [id |-> FreshId]}

\* arguments of removeEvents: {} and one property
SearchInputs ==
    {<<>>} \cup {[type |-> ty] : ty \in Types} \cup {[timestamp |-> t] : t \in 0..MaxTs}

\* further arguments of removeEvents: two properties, and a property that no event has
SearchInputsMore ==
    {[type |-> "noteOn", timestamp |-> t] : t \in 0..MaxTs}
    \cup {[note |-> 60], [velocity |-> 1]}

Next ==
    \/ Tick
    \/ \E up \in BOOLEAN : Play(up)
    \/ \E up \in BOOLEAN : Wake(up)
    \/ Pause
    \/ Stop
    \/ \E ms \in 0..(MaxTs + 1) : SetTime(ms)
    \/ GetCurrentTime
    \/ \E v \in Speeds \cup {0} : SetSpeed(<<v>>)
    \/ \E e \in AddInputs : HasRoom(e) /\ AddEvent(e, FALSE)
    \/ \E s \in SearchInputs : RemoveEvents(s)
    \/ Reset
    \/ \E l \in LoadInputs : LoadParsedMidi(l, 0)


Spec == Init /\ [][Next]_vars

\* ------------------------------------------------------- every operation
\* arguments of setSpeed: NaN, zero, a negative number, positive numbers, and the
\* strings "0" and "2"
SpeedInputs == {<<>>} \cup {<<v>> : v \in Speeds \cup {0, -1}} \cup {<<0, "string">>, <<2, "string">>}

\* results of decoding the argument of loadFromDataUrl / loadFromUint8Array
DecodeOutcomes == {<<>>} \cup {<<l>> : l \in LoadInputs}

LoadFromOps == {"loadFromDataUrl", "loadFromUint8Array"}

\* every operation of the player, with all the arguments above, and the caller's
\* operations on the arrays it holds
NextOps ==
    \/ Tick
    \/ \E up \in BOOLEAN : Wake(up)
    \/ /\ calls < MaxOps
       /\ \/ \E up \in BOOLEAN : Play(up)
          \/ Pause
          \/ Stop
          \/ \E ms \in 0..(MaxTs + 1) : SetTime(ms)
          \/ GetCurrentTime
          \/ \E v \in SpeedInputs : SetSpeed(v)
          \/ \E e \in AddInputs \cup AddInputsMore, ticked \in BOOLEAN :
                HasRoom(e) /\ AddEvent(e, ticked)
          \/ \E s \in SearchInputs \cup SearchInputsMore : RemoveEvents(s)
          \/ Reset
          \/ \E l \in LoadInputs, k \in NoteShifts : LoadParsedMidi(l, k)
          \/ \E op \in LoadFromOps, d \in DecodeOutcomes, k \in NoteShifts : LoadFrom(op, d, k)
          \/ ReverseMidiData
          \/ \E e \in AddInputs, passed \in BOOLEAN :
                "timestamp" \in DOMAIN e /\ "type" \in DOMAIN e /\ CallerPush(e, passed)
          \/ \E passed \in BOOLEAN : CallerPop(passed)

SpecOps == Init /\ [][NextOps]_vars

\* ------------------------------------------------------- reverseMidiData
\* the timelines reverseMidiData is tried on: ascending lists of 1..MaxLen noteOn and
\* noteOff events of the notes 60 and 61, stamped 0..MaxRevTs
Stamps(n) == {f \in [1..n -> 0..MaxRevTs] : \A i \in 1..(n - 1) : f[i] <= f[i + 1]}

ReverseInput(n, ts, ty, nt) ==
    [i \in 1..n |-> [id |-> i, timestamp |-> ts[i], type |-> ty[i], note |-> nt[i]]]

\* a player on which loadParsedMidi has loaded one of these timelines
InitLoaded ==
    /\ \E n \in 1..MaxLen :
          \E ts \in Stamps(n), ty \in [1..n -> Types], nt \in [1..n -> {60, 61}] :
              /\ events = ReverseInput(n, ts, ty, nt)
              /\ duration = ts[n]
    /\ playedEvents = <<>>
    /\ currentTime = 0
    /\ startingTime = <<>>
    /\ speed = 1
    /\ playing = FALSE
    /\ now = 0
    /\ loops = <<>>
    /\ fired = <<>>
    /\ threw = FALSE
    /\ last = "new"
    /\ calls = 0
    /\ aliased = TRUE
    /\ NoCallbacks
    /\ NoParser

SpecReverse == InitLoaded /\ [][ReverseMidiData]_vars

\* ------------------------------------------------- natural completion
\* A player at rest, as loadParsedMidi, setTime(t) and setSpeed(v) leave it: an
\* ascending timeline split at t with at least one pending event, no loop suspended.
Timelines ==
    {<<[id |-> 1, timestamp |-> t1, type |-> "noteOn", note |-> 60]>> : t1 \in 0..MaxTs}
    \cup {<<[id |-> 1, timestamp |-> t1, type |-> "noteOn", note |-> 60],
            [id |-> 2, timestamp |-> t2, type |-> "noteOff", note |-> 60]>> :
            t1 \in 0..MaxTs, t2 \in 0..MaxTs}
    \cup {<<[id |-> 1, timestamp |-> t1, type |-> "noteOn", note |-> 60],
            [id |-> 2, timestamp |-> t2, type |-> "noteOn", note |-> 60],
            [id |-> 3, timestamp |-> t3, type |-> "noteOff", note |-> 60]>> :
            t1 \in 0..MaxTs, t2 \in 0..MaxTs, t3 \in 0..MaxTs}

InitAtRest ==
    \E tl \in {x \in Timelines : Ascending(x)}, t \in 0..MaxTs, v \in Speeds :
        LET s == setTime(tl, <<>>, <<>>, 0, t)
        IN  /\ Len(s.events) >= 1
            /\ events = s.events
            /\ playedEvents = s.playedEvents
            /\ currentTime = s.currentTime
            /\ startingTime = s.startingTime
            /\ speed = v
            /\ duration = UpdateDuration(tl, <<>>)
    /\ playing = FALSE
    /\ now = 0
    /\ loops = <<>>
    /\ fired = <<>>
    /\ threw = FALSE
    /\ last = "new"
    /\ calls = 0
    /\ aliased = TRUE
    /\ NoCallbacks
    /\ NoParser

\* the one play() call, at any instant, then only the clock and the timers
PlayOnce(up) == calls = 0 /\ Play(up)

NextFinish ==
    \/ Tick
    \/ \E up \in BOOLEAN : PlayOnce(up)
    \/ \E up \in BOOLEAN : Wake(up)

\* the clock advances and a due timer fires its callback
SpecFinish ==
    /\ InitAtRest
    /\ [][NextFinish]_vars
    /\ WF_vars(Tick)
    /\ WF_vars(\E up \in BOOLEAN : Wake(up))

\* ------------------------------------------------- addEvent while playing
\* a player at rest is started once, and up to two events are added at any instant
\* before, during or after the playback
NextAdd ==
    \/ Tick
    \/ \E up \in BOOLEAN : PlayOnce(up)
    \/ \E up \in BOOLEAN : Wake(up)
    \/ \E e \in AddInputs, ticked \in BOOLEAN : calls <= 1 /\ AddEvent(e, ticked)

SpecAdd == InitAtRest /\ [][NextAdd]_vars

\* ---------------------------------------------------------------- callbacks
\* the fields of the player that the callback registry does not touch
playervars == <<events, playedEvents, currentTime, startingTime, speed, playing,
                duration, now, loops, aliased>>

\* the ids of the callbacks of a list
Ids(cbs) == {cbs[i].id : i \in 1..Len(cbs)}

\* the registry fields as one value, with what the model remembers of them
Registry == [callbacks |-> callbacks, highestCallbackId |-> highestCallbackId,
             registered |-> registered, removed |-> removed]

\* removeCallback that also drops every callback registered before the one named
removeCallbackOlder(cbs, id) == SelectSeq(cbs, LAMBDA callback : callback.id > id)

\* this._callbacks.filter(callback => callback.id !== id)
removeCallback(cbs, id) == SelectSeq(cbs, LAMBDA callback : callback.id # id)

\* addCustomCallback(targetEvent, callback) on the registry
addCustomCallback(reg, targetEvent, callback) ==
    LET id == reg.highestCallbackId + 1
    IN  [reg EXCEPT !.highestCallbackId = id,
                    !.callbacks = Append(@, [targetEvent |-> targetEvent,
                                             callback |-> callback, id |-> id]),
                    !.registered = Append(@, targetEvent)]

\* removeCallback(id) on the registry: the new array replaces this._callbacks;
\* `removed` remembers the id when a callback has been registered under it
WithoutCallback(reg, id) ==
    [reg EXCEPT !.callbacks = removeCallback(reg.callbacks, id),
                !.removed = @ \cup ({id} \cap (0..reg.highestCallbackId))]

\* removeAllCallbacks() on the registry
WithoutCallbacks(reg) ==
    [reg EXCEPT !.callbacks = <<>>, !.removed = @ \cup Ids(reg.callbacks)]

\* what the registered functions of the model do when they are called with `event`:
\* nothing, or one call back into the registry
Handle(reg, callback, event) ==
    CASE callback.does = "nothing" -> reg
      [] callback.does = "removeCallback" -> WithoutCallback(reg, callback.id)
      [] callback.does = "removeAllCallbacks" -> WithoutCallbacks(reg)
      [] callback.does = "addCallback" ->
            IF reg.highestCallbackId + 1 < MaxCallbacks
            THEN addCustomCallback(reg, [type |-> event.type], [does |-> "nothing"])
            ELSE reg

\* objContainsObj with its arguments exchanged
TargetsSwapped(event, customCallback) == objContainsObj(customCallback.targetEvent, event)

\* objContainsObj(event, customCallback.targetEvent)
Targets(event, customCallback) == objContainsObj(event, customCallback.targetEvent)

\* array.forEach(customCallback => ...) of triggerCallbacks from index i on: `array`
\* is the array this._callbacks held when forEach began (a callback that removes
\* callbacks replaces this._callbacks, one that adds a callback appends behind the
\* length forEach has read); st is the registry and the invocations so far
RECURSIVE forEach(_, _, _, _)
forEach(array, i, event, st) ==
    IF i > Len(array) THEN st
    ELSE LET customCallback == array[i]
         IN  IF Targets(event, customCallback)
             THEN forEach(array, i + 1, event,
                          [reg |-> Handle(st.reg, customCallback.callback, event),
                           invoked |-> Append(st.invoked,
                                              [id |-> customCallback.id, event |-> event])])
             ELSE forEach(array, i + 1, event, st)

\* the argument of triggerCallbacks is a string: [string |-> name] stands for it
IsString(event) == DOMAIN event = {"string"}

\* one call of a method of the callback registry
CallbackCall(op) ==
    /\ calls < MaxCallbackOps
    /\ calls' = calls + 1
    /\ last' = op
    /\ threw' = FALSE
    /\ UNCHANGED <<playervars, round, parservars>>

\* the registry fields take the values of reg
SetRegistry(reg) ==
    /\ callbacks' = reg.callbacks
    /\ highestCallbackId' = reg.highestCallbackId
    /\ registered' = reg.registered
    /\ removed' = reg.removed

\* addCustomCallback(targetEvent, callback)
AddCustomCallback(targetEvent, callback) ==
    /\ CallbackCall("addCustomCallback")
    /\ highestCallbackId + 1 < MaxCallbacks
    /\ SetRegistry(addCustomCallback(Registry, targetEvent, callback))
    /\ returned' = <<highestCallbackId'>>
    /\ invoked' = <<>>
    /\ fired' = <<>>

\* addCallback(eventName, callback)
AddCallback(eventName, callback) ==
    /\ CallbackCall("addCallback")
    /\ highestCallbackId + 1 < MaxCallbacks
    /\ SetRegistry(addCustomCallback(Registry, [type |-> eventName], callback))
    /\ returned' = <<highestCallbackId'>>
    /\ invoked' = <<>>
    /\ fired' = <<>>

\* removeCallback(id)
RemoveCallback(id) ==
    /\ CallbackCall("removeCallback")
    /\ SetRegistry(WithoutCallback(Registry, id))
    /\ returned' = <<Len(callbacks) > Len(callbacks')>>
    /\ invoked' = <<>>
    /\ fired' = <<>>

\* removeAllCallbacks()
RemoveAllCallbacks ==
    /\ CallbackCall("removeAllCallbacks")
    /\ SetRegistry(WithoutCallbacks(Registry))
    /\ returned' = <<>>
    /\ invoked' = <<>>
    /\ fired' = <<>>

\* triggerCallbacks(event)
TriggerCallbacks(event) ==
    /\ CallbackCall("triggerCallbacks")
    /\ LET e == IF IsString(event) THEN Named(event.string) ELSE event
           st == forEach(callbacks, 1, e, [reg |-> Registry, invoked |-> <<>>])
       IN  /\ SetRegistry(st.reg)
           /\ invoked' = st.invoked
           /\ fired' = <<e>>
    /\ returned' = <<>>

\* the functions registered: one that does nothing, one that removes the callback 1,
\* one that removes all callbacks, one that registers a further callback
Handlers ==
    {[does |-> "nothing"], [does |-> "removeCallback", id |-> 1],
     [does |-> "removeAllCallbacks"], [does |-> "addCallback"]}

\* the target events and functions of addCustomCallback
CallbackInputs ==
    {<<[type |-> "noteOn"], h>> : h \in Handlers}
    \cup {<<[note |-> 60], [does |-> "nothing"]>>,
          <<[type |-> "noteOn", note |-> 61], [does |-> "nothing"]>>,
          <<<<>>, [does |-> "nothing"]>>}

\* the arguments of triggerCallbacks: two names, and events with further properties
TriggerInputs ==
    {[string |-> "noteOn"], [string |-> "finish"],
     [type |-> "noteOn", note |-> 60, timestamp |-> 0, customProp |-> "abc"],
     [type |-> "noteOff", note |-> 60, timestamp |-> 1]}

NextCallbacks ==
    \/ \E c \in CallbackInputs : AddCustomCallback(c[1], c[2])
    \/ \E name \in {"finish"} : AddCallback(name, [does |-> "nothing"])
    \/ \E id \in 0..MaxCallbacks : RemoveCallback(id)
    \/ RemoveAllCallbacks
    \/ \E event \in TriggerInputs : TriggerCallbacks(event)

\* the constructed player, on which only the registry is used
InitCallbacks == Init /\ events = <<>>

SpecCallbacks == InitCallbacks /\ [][NextCallbacks]_vars

\* ------------------------------------------------------------ the loop idiom
\* player.addCallback('finish', function() { player.setTime(0); player.play(); })
LoopCallback ==
    [id |-> 0, targetEvent |-> [type |-> "finish"], callback |-> [does |-> "loop"]]

\* triggerCallbacks('finish') reaches a callback that restarts the playback
Restarts(cbs) ==
    \E i \in 1..Len(cbs) :
        Targets(Named("finish"), cbs[i]) /\ cbs[i].callback.does = "loop"

\* the callback of the loop idiom, called by triggerCallbacks('finish') at the end
\* of a play() that found the fields ev, pl, st, cur: setTime(0), then play() up to
\* its first await. A play() that finds nothing pending ends at once with 'finish'
\* and calls the callback again from inside itself; `depth` is the room left on the
\* call stack, and a call that finds none raises a RangeError.
RECURSIVE Restart(_, _, _, _, _, _, _, _, _)
Restart(ev, pl, st, sp, cur, lps, frd, up, depth) ==
    IF depth = 0
    THEN [overflow |-> TRUE, events |-> ev, playedEvents |-> pl, startingTime |-> st,
          currentTime |-> cur, playing |-> FALSE, loops |-> lps, fired |-> frd]
    ELSE LET s == setTime(ev, pl, st, cur, 0)
             t == s.currentTime
             st2 == <<now * Scale - t \div sp>>
             r == RunLoop(s.events, TRUE, st2, sp, t, lps, frd \o <<Named("play")>>, up)
         IN  IF Named("finish") \in Range(LoopExit(s.events, TRUE)) /\ ~r.playing
             THEN Restart(s.events, s.playedEvents, st2, sp, r.currentTime, r.loops,
                          r.fired, up, depth - 1)
             ELSE [overflow |-> FALSE, events |-> s.events,
                   playedEvents |-> s.playedEvents, startingTime |-> st2,
                   currentTime |-> r.currentTime, playing |-> r.playing,
                   loops |-> r.loops, fired |-> r.fired]

\* the fields after a play() or a wake-up whose loop has come to r with the lists
\* ev and pl: when 'finish' has fired and a callback restarts the playback, the
\* fields are those the callback leaves. A RangeError rejects the promise of the
\* innermost play(), which has come to `this._playing = true` or not, and the
\* callers return.
AfterLoop(ev, pl, st, r, up) ==
    IF Named("finish") \in Range(r.fired) /\ Restarts(callbacks)
    THEN LET a == Restart(ev, pl, st, speed, r.currentTime, r.loops, r.fired, up, MaxDepth)
         IN  /\ events' = a.events
             /\ playedEvents' = a.playedEvents
             /\ startingTime' = a.startingTime
             /\ currentTime' = a.currentTime
             /\ loops' = a.loops
             /\ fired' = a.fired
             /\ threw' = a.overflow
             /\ IF a.overflow THEN playing' \in BOOLEAN ELSE playing' = a.playing
    ELSE /\ events' = ev
         /\ playedEvents' = pl
         /\ startingTime' = st
         /\ currentTime' = r.currentTime
         /\ loops' = r.loops
         /\ fired' = r.fired
         /\ threw' = FALSE
         /\ playing' = r.playing

\* play() on the player at rest, its callbacks called
PlayLoop(up) ==
    /\ calls = 0
    /\ calls' = 1
    /\ last' = "play"
    /\ LET t == GetTime(playing, startingTime, speed, currentTime)
           st == <<now * Scale - t \div speed>>
           r == RunLoop(events, TRUE, st, speed, t, loops, <<Named("play")>>, up)
       IN  AfterLoop(events, playedEvents, st, r, up)
    /\ round' = <<>>
    /\ UNCHANGED <<speed, duration, now, aliased, parservars>>
    /\ UNCHANGED <<callbacks, highestCallbackId, invoked, returned, registered, removed>>

\* the timer of the suspended loop fires and play() resumes after its await, its
\* callbacks called; `round` takes the event dispatched, and is empty again after
\* a 'finish'
WakeLoop(up) ==
    \E i \in 1..Len(loops) :
        /\ DueLoop(i)
        /\ LET nextEvent == loops[i].nextEvent
               rest == RemoveAt(loops, i)
           IN  IF BreakAfterWait(playing)
               THEN /\ AfterLoop(events, playedEvents, startingTime,
                                 [currentTime |-> currentTime, playing |-> FALSE,
                                  loops |-> rest, fired |-> LoopExit(events, playing)], up)
                    /\ round' = round
               ELSE LET ev == IF Len(events) > 0 THEN Tail(events) ELSE events
                        pl == Append(playedEvents, nextEvent)
                        r == RunLoop(ev, playing, startingTime, speed, currentTime,
                                     rest, <<nextEvent>>, up)
                    IN  /\ AfterLoop(ev, pl, startingTime, r, up)
                        /\ round' = IF Named("finish") \in Range(r.fired)
                                     THEN <<>> ELSE Append(round, nextEvent)
        /\ last' = "wake"
        /\ UNCHANGED <<speed, duration, now, calls, aliased, parservars>>
        /\ UNCHANGED <<callbacks, highestCallbackId, invoked, returned, registered, removed>>

\* the clock of the looping player, followed up to MaxLoopNow
TickLoop == now < MaxLoopNow /\ Tick

\* a loaded player at time 0, the loop idiom registered
InitLoop ==
    /\ \E tl \in {x \in Timelines : Ascending(x)} \cup {<<>>}, v \in Speeds :
          /\ events = tl
          /\ speed = v
          /\ duration = UpdateDuration(tl, <<>>)
    /\ playedEvents = <<>>
    /\ currentTime = 0
    /\ startingTime = <<>>
    /\ playing = FALSE
    /\ now = 0
    /\ loops = <<>>
    /\ fired = <<>>
    /\ threw = FALSE
    /\ last = "new"
    /\ calls = 0
    /\ aliased = TRUE
    /\ callbacks = <<LoopCallback>>
    /\ highestCallbackId = 0
    /\ registered = <<LoopCallback.targetEvent>>
    /\ invoked = <<>>
    /\ returned = <<>>
    /\ removed = {}
    /\ round = <<>>
    /\ NoParser

NextLoop ==
    \/ TickLoop
    \/ \E up \in BOOLEAN : PlayLoop(up)
    \/ \E up \in BOOLEAN : WakeLoop(up)

SpecLoop == InitLoop /\ [][NextLoop]_vars

\* ------------------------------------------------- pause and resume
\* play() by a caller that never calls it on a playing player
PlayIdle(up) == ~playing /\ Play(up)

\* a player at rest on which only play() (when it is not playing) and pause() are
\* called, at any instants
NextResume ==
    \/ Tick
    \/ \E up \in BOOLEAN : PlayIdle(up)
    \/ Pause
    \/ \E up \in BOOLEAN : Wake(up)

SpecResume == InitAtRest /\ [][NextResume]_vars

\* ------------------------------------------------------ the clock alone
\* a player on which neither setTime nor stop is called: play(), pause(),
\* getCurrentTime() and setSpeed with a valid speed, at any instants
NextClock ==
    \/ Tick
    \/ \E up \in BOOLEAN : Play(up)
    \/ \E up \in BOOLEAN : Wake(up)
    \/ Pause
    \/ GetCurrentTime
    \/ \E v \in Speeds : SetSpeed(<<v>>)

SpecClock == Init /\ [][NextClock]_vars

\* ------------------------------------------- the older revision of play()
\* src/src/MidiPlayer.js: `const nextEvent = this._events.shift()` comes before the
\* await, and after it the event is handled and pushed to _playedEvents. pause(),
\* stop(), getCurrentTime() and _waitForEvent are those of the current revision.

\* play() of the older revision from the head of its while loop to its next
\* suspension or to its end
RunLoopShift(ev, isPlaying, st, sp, cur, lps, frd, up) ==
    IF isPlaying /\ Len(ev) > 0
    THEN LET nextEvent == ev[1]
             w == waitForEvent(nextEvent, isPlaying, st, sp, cur, up)
         IN  [events |-> Tail(ev),
              currentTime |-> w.currentTime,
              playing |-> TRUE,
              loops |-> Append(lps, [nextEvent |-> nextEvent, wakeAt |-> w.wakeAt]),
              fired |-> frd]
    ELSE [events |-> ev,
          currentTime |-> cur,
          playing |-> FALSE,
          loops |-> lps,
          fired |-> frd \o LoopExit(ev, isPlaying)]

\* play() of the older revision, called when no playback is under way
PlayShift(up) ==
    /\ Call("play")
    /\ ~playing
    /\ loops = <<>>
    /\ LET t == GetTime(playing, startingTime, speed, currentTime)
           st == <<now * Scale - t \div speed>>
           r == RunLoopShift(events, TRUE, st, speed, t, loops, <<Named("play")>>, up)
       IN  /\ startingTime' = st
           /\ events' = r.events
           /\ currentTime' = r.currentTime
           /\ playing' = r.playing
           /\ loops' = r.loops
           /\ fired' = r.fired
    /\ threw' = FALSE
    /\ UNCHANGED <<playedEvents, speed, duration, now, aliased>>

\* the timer of a suspended loop of the older revision fires
WakeShift(up) ==
    \E i \in 1..Len(loops) :
        /\ DueLoop(i)
        /\ LET nextEvent == loops[i].nextEvent
               rest == RemoveAt(loops, i)
           IN  IF BreakAfterWait(playing)
               THEN /\ fired' = LoopExit(events, playing)
                    /\ loops' = rest
                    /\ playing' = FALSE
                    /\ UNCHANGED <<events, playedEvents, currentTime>>
               ELSE LET r == RunLoopShift(events, playing, startingTime, speed, currentTime,
                                          rest, <<nextEvent>>, up)
                    IN  /\ events' = r.events
                        /\ playedEvents' = Append(playedEvents, nextEvent)
                        /\ currentTime' = r.currentTime
                        /\ playing' = r.playing
                        /\ loops' = r.loops
                        /\ fired' = r.fired
        /\ threw' = FALSE
        /\ last' = "wake"
        /\ UNCHANGED <<startingTime, speed, duration, now, calls, aliased>>
        /\ UNCHANGED <<cbvars, parservars>>

NextShift ==
    \/ Tick
    \/ \E up \in BOOLEAN : PlayShift(up)
    \/ Pause
    \/ Stop
    \/ \E up \in BOOLEAN : WakeShift(up)

SpecShift == InitAtRest /\ [][NextShift]_vars

\* ----------------------------------------------------------------- Replayer
\* Timestamps of the Replayer are kept exactly, in units of 1 / (ticksPerBeat * 1000)
\* of a millisecond: ticks ticks at microsecondsPerBeat are ticks * microsecondsPerBeat
\* units (the code's ticks / ticksPerBeat / (beatsPerMinute / 60) * 1000 ms with
\* beatsPerMinute = 60000000 / microsecondsPerBeat). The rounding of the floating-point
\* divisions is not modelled.

\* the record r with the fields of `more` added or replaced: {...r, ...more}
Spread(r, more) ==
    [key \in DOMAIN r \cup DOMAIN more |-> IF key \in DOMAIN more THEN more[key] ELSE r[key]]

\* `let beatsPerMinute = 120`, as the microseconds per beat it stands for
DefaultMicrosecondsPerBeat == 500000

\* trackStates as the Replayer sets them up; <<>> is null
InitialTrackStates(file) ==
    [i \in 1..Len(file.tracks) |->
        [nextEventIndex |-> 0,
         ticksToNextEvent |-> IF Len(file.tracks[i]) > 0
                              THEN <<file.tracks[i][1].deltaTime>> ELSE <<>>]]
\* the first for loop of getNextEvent with `<=` in place of `<`: among tracks that
\* are as near, the last one is taken
RECURSIVE NextEventTrackLast(_, _, _)
NextEventTrackLast(trackStates, i, found) ==
    IF i > Len(trackStates) THEN found
    ELSE LET t == trackStates[i].ticksToNextEvent
         IN  IF t # <<>> /\ (found = <<>> \/ t[1] <= found[1])
             THEN NextEventTrackLast(trackStates, i + 1, <<t[1], i>>)
             ELSE NextEventTrackLast(trackStates, i + 1, found)

\* the first for loop of getNextEvent from track i on: `found` is <<>> or the
\* <<ticksToNextEvent, nextEventTrack>> found so far
RECURSIVE NextEventTrack(_, _, _)
NextEventTrack(trackStates, i, found) ==
    IF i > Len(trackStates) THEN found
    ELSE LET t == trackStates[i].ticksToNextEvent
         IN  IF t # <<>> /\ (found = <<>> \/ t[1] < found[1])
             THEN NextEventTrack(trackStates, i + 1, <<t[1], i>>)
             ELSE NextEventTrack(trackStates, i + 1, found)

\* getNextEvent without its second for loop
ElapseNone(trackStates, ticksToNextEvent) == trackStates

\* `advance timings on all tracks by ticksToNextEvent`
Elapse(trackStates, ticksToNextEvent) ==
    [i \in 1..Len(trackStates) |->
        IF trackStates[i].ticksToNextEvent # <<>>
        THEN [trackStates[i] EXCEPT !.ticksToNextEvent = <<@[1] - ticksToNextEvent>>]
        ELSE trackStates[i]]

\* getNextEvent(): the event (<<>> is null) and the trackStates it leaves; the
\* field track is the index of the track, counted from 0
getNextEvent(file, trackStates) ==
    LET found == NextEventTrack(trackStates, 1, <<>>)
    IN  IF found = <<>> THEN [event |-> <<>>, trackStates |-> trackStates]
        ELSE LET ticksToNextEvent == found[1]
                 nextEventTrack == found[2]
                 nextEventIndex == trackStates[nextEventTrack].nextEventIndex
                 track == file.tracks[nextEventTrack]
                 nextEvent == track[nextEventIndex + 1]
                 consumed ==
                     [trackStates EXCEPT ![nextEventTrack] =
                         [nextEventIndex |-> nextEventIndex + 1,
                          ticksToNextEvent |->
                              IF nextEventIndex + 2 <= Len(track)
                              THEN <<ticksToNextEvent + track[nextEventIndex + 2].deltaTime>>
                              ELSE <<>>]]
             IN  [event |-> <<Spread(nextEvent, [ticksToEvent |-> ticksToNextEvent,
                                                 track |-> nextEventTrack - 1])>>,
                  trackStates |-> Elapse(consumed, ticksToNextEvent)]

\* lines 452-455: the tempo the main loop converts the delta of midiEvent with
TempoAt(midiEvent, microsecondsPerBeat) ==
    IF midiEvent.type = "meta" /\ midiEvent.subtype = "setTempo"
    THEN midiEvent.microsecondsPerBeat ELSE microsecondsPerBeat

\* currentTime = deltaTime
AdvanceFromZero(time0, deltaTime) == deltaTime

\* currentTime += deltaTime
Advance(time0, deltaTime) == time0 + deltaTime

\* lines 457-463: deltaTime, 0 when ticksToEvent is not positive
DeltaTime(ticksToEvent, microsecondsPerBeat) ==
    IF ticksToEvent > 0 THEN ticksToEvent * microsecondsPerBeat ELSE 0

\* the while loop of the Replayer; time0 is its currentTime, temporal0 its temporal
RECURSIVE ReplayerLoop(_, _, _, _, _)
ReplayerLoop(file, trackStates, microsecondsPerBeat, time0, temporal0) ==
    LET next == getNextEvent(file, trackStates)
    IN  IF next.event = <<>> THEN temporal0
        ELSE LET midiEvent == next.event[1]
                 tempo == TempoAt(midiEvent, microsecondsPerBeat)
                 time == Advance(time0, DeltaTime(midiEvent.ticksToEvent, tempo))
             IN  ReplayerLoop(file, next.trackStates, tempo, time,
                              Append(temporal0, Spread(midiEvent, [timestamp |-> time])))

\* new Replayer(midiFile).getData()
Replayer(file) ==
    ReplayerLoop(file, InitialTrackStates(file), DefaultMicrosecondsPerBeat, 0, <<>>)

\* a timestamp of the Replayer in milliseconds, when that is a whole number
Millis(timestamp, ticksPerBeat) == timestamp \div (ticksPerBeat * 1000)

\* _formatReplayerData, lines 53-68: the note events in the format of the player
FormatEvent(event) ==
    [channel |-> event.channel, note |-> event.noteNumber, timestamp |-> event.timestamp,
     track |-> event.track, type |-> event.subtype, velocity |-> event.velocity]

IsNoteEvent(event) == event.subtype \in {"noteOn", "noteOff"}

\* the inner for loop when it does not compare the notes
RECURSIVE FollowingNoteOffAnyKey(_, _, _)
FollowingNoteOffAnyKey(formatted, noteOnKeyId, n) ==
    IF n > Len(formatted) THEN <<>>
    ELSE IF formatted[n].type = "noteOff"
         THEN <<formatted[n]>>
         ELSE FollowingNoteOffAnyKey(formatted, noteOnKeyId, n + 1)

\* the inner for loop from index n on: <<>> or the first noteOff of the key
RECURSIVE FollowingNoteOff(_, _, _)
FollowingNoteOff(formatted, noteOnKeyId, n) ==
    IF n > Len(formatted) THEN <<>>
    ELSE IF formatted[n].type = "noteOff" /\ noteOnKeyId = formatted[n].note
         THEN <<formatted[n]>>
         ELSE FollowingNoteOff(formatted, noteOnKeyId, n + 1)
\* _formatReplayerData with the subtraction of line 81 turned round
formatReplayerDataReversed(midiData) ==
    LET kept == SelectSeq(midiData, IsNoteEvent)
        formatted == [i \in 1..Len(kept) |-> FormatEvent(kept[i])]
    IN  [i \in 1..Len(formatted) |->
            IF formatted[i].type = "noteOn"
            THEN LET noteOffEvent == FollowingNoteOff(formatted, formatted[i].note, i + 1)
                 IN  IF noteOffEvent = <<>> THEN formatted[i]
                     ELSE Spread(formatted[i],
                                 [length |-> formatted[i].timestamp
                                             - noteOffEvent[1].timestamp])
            ELSE formatted[i]]

\* _formatReplayerData(midiData)
formatReplayerData(midiData) ==
    LET kept == SelectSeq(midiData, IsNoteEvent)
        formatted == [i \in 1..Len(kept) |-> FormatEvent(kept[i])]
    IN  [i \in 1..Len(formatted) |->
            IF formatted[i].type = "noteOn"
            THEN LET noteOffEvent == FollowingNoteOff(formatted, formatted[i].note, i + 1)
                 IN  IF noteOffEvent = <<>> THEN formatted[i]
                     ELSE Spread(formatted[i],
                                 [length |-> noteOffEvent[1].timestamp
                                             - formatted[i].timestamp])
            ELSE formatted[i]]

\* the files decoded: ticks per beat, number of tracks, delta times in half beats
TicksPerBeats == {2, 480}
TrackCounts == {1, 2, 3}
HalfBeats == 0..2

\* the events of a decoded track: note events of one key and setTempo events

TrackEvents(ticksPerBeat) ==
    {[deltaTime |-> d * (ticksPerBeat \div 2), type |-> "channel", subtype |-> st,
      channel |-> 0, noteNumber |-> 60, velocity |-> IF st = "noteOn" THEN 80 ELSE 0] :
        d \in HalfBeats, st \in {"noteOn", "noteOff"}}
    \cup {[deltaTime |-> d * (ticksPerBeat \div 2), type |-> "meta", subtype |-> "setTempo",
           microsecondsPerBeat |-> 250000] : d \in HalfBeats}

\* the tracks a list of events makes when owner[i] is the track of the i-th event
TracksOf(flat, owner, n) ==
    [k \in 1..n |->
        LET idx == SelectSeq([i \in 1..Len(flat) |-> i], LAMBDA i : owner[i] = k)
        IN  [j \in 1..Len(idx) |-> flat[idx[j]]]]

\* the ways to give m events in file order to n tracks
Owners(m, n) == {o \in [1..m -> 1..n] : \A i \in 1..(m - 1) : o[i] <= o[i + 1]}

\* the player as its constructor leaves it
Constructed ==
    /\ events = <<>>
    /\ playedEvents = <<>>
    /\ duration = UpdateDuration(<<>>, <<>>)
    /\ aliased = FALSE
    /\ currentTime = 0
    /\ startingTime = <<>>
    /\ speed = 1
    /\ playing = FALSE
    /\ now = 0
    /\ loops = <<>>
    /\ fired = <<>>
    /\ threw = FALSE
    /\ calls = 0
    /\ NoCallbacks

\* MidiFile(data) has returned a decoded file: up to three tracks with up to
\* MaxFileEvents events together
InitReplayer ==
    /\ Constructed
    /\ last = "MidiFile"
    /\ data = <<>>
    /\ \E tpb \in TicksPerBeats, n \in TrackCounts, m \in 0..MaxFileEvents :
          \E flat \in [1..m -> TrackEvents(tpb)], owner \in Owners(m, n) :
              midiFile = [header |-> [ticksPerBeat |-> tpb, trackCount |-> n],
                          tracks |-> TracksOf(flat, owner, n)]
    /\ temporal = <<>>
    /\ formattedData = <<>>
    /\ written = <<>>

\* const replayer = new Replayer(midiFile); const replayerData = replayer.getData()
GetData ==
    /\ last = "MidiFile"
    /\ temporal' = Replayer(midiFile)
    /\ last' = "Replayer"
    /\ UNCHANGED <<playervars, cbvars, fired, threw, calls, data, midiFile, formattedData, written>>

\* const formattedData = this._formatReplayerData(replayerData)
FormatReplayerData ==
    /\ last = "Replayer"
    /\ formattedData' = formatReplayerData(temporal)
    /\ last' = "_formatReplayerData"
    /\ UNCHANGED <<playervars, cbvars, fired, threw, calls, data, midiFile, temporal, written>>

NextReplayer == GetData \/ FormatReplayerData

SpecReplayer == InitReplayer /\ [][NextReplayer]_vars

\* ------------------------------------------------------ _formatReplayerData
\* the events of a list of the Replayer, timestamp apart: note events of two keys
\* on two channels (each channel in a track of its own) and setTempo events
ReplayerEvents ==
    {[type |-> "channel", subtype |-> st, channel |-> c, track |-> c, noteNumber |-> n,
      velocity |-> IF st = "noteOn" THEN 80 ELSE 0] :
        st \in {"noteOn", "noteOff"}, c \in {0, 1}, n \in {60, 61}}
    \cup {[type |-> "meta", subtype |-> "setTempo", track |-> 0,
           microsecondsPerBeat |-> 250000]}

\* the timestamps of a list of n events: rising by 0 or 1 from 0 or 1
ReplayerStamps(n) ==
    {t \in [1..n -> 0..n] :
        /\ n > 0 => t[1] <= 1
        /\ \A i \in 1..(n - 1) : t[i + 1] - t[i] \in {0, 1}}

\* the Replayer has returned a list of up to MaxData events
InitFormat ==
    /\ Constructed
    /\ last = "Replayer"
    /\ data = <<>>
    /\ midiFile = <<>>
    /\ \E n \in 0..MaxData :
          \E evs \in [1..n -> ReplayerEvents], ts \in ReplayerStamps(n) :
              temporal = [i \in 1..n |-> Spread(evs[i], [timestamp |-> ts[i]])]
    /\ formattedData = <<>>
    /\ written = <<>>

SpecFormat == InitFormat /\ [][FormatReplayerData]_vars

\* ----------------------------------------------------------------- MidiFile
\* `data` is the string given to MidiFile, a sequence of char codes 0..255. The
\* strings decoded here hold whole chunks and whole events, so that no read lies
\* behind the end of a stream.

\* stream.read(length) at position: str.substr(position, length)
read(str, position, length) ==
    IF length <= 0 \/ position >= Len(str) THEN <<>>
    ELSE SubSeq(str, position + 1,
                IF position + length <= Len(str) THEN position + length ELSE Len(str))

\* stream.readInt8() and readInt8(true)
readInt8(str, position) == str[position + 1]
readInt8Signed(str, position) ==
    IF str[position + 1] > 127 THEN str[position + 1] - 256 ELSE str[position + 1]

\* stream.readInt16()
readInt16(str, position) == str[position + 1] * 256 + str[position + 2]

\* stream.readInt32(): << 24 works on 32-bit signed integers
readInt32(str, position) ==
    (IF str[position + 1] > 127 THEN str[position + 1] - 256 ELSE str[position + 1]) * 16777216
    + str[position + 2] * 65536 + str[position + 3] * 256 + str[position + 4]

\* stream.readletInt(): the value and the position behind it
RECURSIVE readletInt(_, _, _)
readletInt(str, position, result) ==
    LET b == readInt8(str, position)
    IN  IF b >= 128 THEN readletInt(str, position + 1, (result + (b % 128)) * 128)
        ELSE [value |-> result + b, position |-> position + 1]

\* readChunk(stream)
readChunk(str, position) ==
    LET length == readInt32(str, position + 4)
    IN  [id |-> read(str, position, 4),
         length |-> length,
         data |-> read(str, position + 8, length),
         position |-> position + 8 + length]

\* 'MThd' and 'MTrk'
MThd == <<77, 84, 104, 100>>
MTrk == <<77, 84, 114, 107>>

\* the subtypes of the meta events (0xff) by their subtype byte
MetaSubtype(subtypeByte) ==
    CASE subtypeByte = 0 -> "sequenceNumber"
      [] subtypeByte = 1 -> "text"
      [] subtypeByte = 2 -> "copyrightNotice"
      [] subtypeByte = 3 -> "trackName"
      [] subtypeByte = 4 -> "instrumentName"
      [] subtypeByte = 5 -> "lyrics"
      [] subtypeByte = 6 -> "marker"
      [] subtypeByte = 7 -> "cuePoint"
      [] subtypeByte = 32 -> "midiChannelPrefix"
      [] subtypeByte = 47 -> "endOfTrack"
      [] subtypeByte = 81 -> "setTempo"
      [] subtypeByte = 84 -> "smpteOffset"
      [] subtypeByte = 88 -> "timeSignature"
      [] subtypeByte = 89 -> "keySignature"
      [] subtypeByte = 127 -> "sequencerSpecific"
      [] OTHER -> "unknown"

\* the length a meta event must have, <<>> when any will do
ExpectedLength(subtype) ==
    CASE subtype = "sequenceNumber" -> <<2>>
      [] subtype = "midiChannelPrefix" -> <<1>>
      [] subtype = "endOfTrack" -> <<0>>
      [] subtype = "setTempo" -> <<3>>
      [] subtype = "smpteOffset" -> <<5>>
      [] subtype = "timeSignature" -> <<4>>
      [] subtype = "keySignature" -> <<2>>
      [] OTHER -> <<>>

\* the fields of a meta event of `length` bytes whose data start at position p
MetaFields(str, p, subtype, length) ==
    CASE subtype = "sequenceNumber" -> [number |-> readInt16(str, p)]
      [] subtype = "midiChannelPrefix" -> [channel |-> readInt8(str, p)]
      [] subtype = "endOfTrack" -> <<>>
      [] subtype = "setTempo" ->
            [microsecondsPerBeat |-> readInt8(str, p) * 65536 + readInt8(str, p + 1) * 256
                                     + readInt8(str, p + 2)]
      [] subtype = "smpteOffset" ->
            [frameRate |-> CASE (readInt8(str, p) \div 32) % 4 = 0 -> 24
                             [] (readInt8(str, p) \div 32) % 4 = 1 -> 25
                             [] (readInt8(str, p) \div 32) % 4 = 2 -> 29
                             [] OTHER -> 30,
             hour |-> readInt8(str, p) % 32, min |-> readInt8(str, p + 1),
             sec |-> readInt8(str, p + 2), frame |-> readInt8(str, p + 3),
             subframe |-> readInt8(str, p + 4)]
      [] subtype = "timeSignature" ->
            [numerator |-> readInt8(str, p), denominator |-> 2 ^ readInt8(str, p + 1),
             metronome |-> readInt8(str, p + 2), thirtyseconds |-> readInt8(str, p + 3)]
      [] subtype = "keySignature" ->
            [key |-> readInt8Signed(str, p), scale |-> readInt8(str, p + 1)]
      [] subtype \in {"sequencerSpecific", "unknown"} -> [data |-> read(str, p, length)]
      [] OTHER -> [text |-> read(str, p, length)]

\* the event read and the stream behind it, or the exception thrown
Read(event, position, lastEventTypeByte) ==
    [threw |-> FALSE, event |-> event, position |-> position,
     lastEventTypeByte |-> lastEventTypeByte]
Throw(message) == [threw |-> TRUE, message |-> message]

\* the channel events by eventTypeByte >> 4: the subtype, the name of the field of
\* param1 and the name of the field of the second parameter (<<>> when there is none)
ChannelSubtype(eventType) ==
    CASE eventType = 8 -> <<"noteOff", "noteNumber", <<"velocity">>>>
      [] eventType = 9 -> <<"noteOn", "noteNumber", <<"velocity">>>>
      [] eventType = 10 -> <<"noteAftertouch", "noteNumber", <<"amount">>>>
      [] eventType = 11 -> <<"controller", "controllerType", <<"value">>>>
      [] eventType = 12 -> <<"programChange", "programNumber", <<>>>>
      [] eventType = 13 -> <<"channelAftertouch", "amount", <<>>>>
      [] eventType = 14 -> <<"pitchBend", "value", <<"value">>>>
      [] OTHER -> <<>>

\* a meta or sysEx event that forgets the running status
StatusAfterOther(lastEventTypeByte) == <<>>

\* meta and sysEx events leave lastEventTypeByte as it is
StatusKept(lastEventTypeByte) == lastEventTypeByte

\* readEvent(stream) at position p; lastEventTypeByte is <<>> while undefined
readEvent(str, p, lastEventTypeByte) ==
    LET delta == readletInt(str, p, 0)
        deltaTime == [deltaTime |-> delta.value]
        eventTypeByte == readInt8(str, delta.position)
        q == delta.position + 1
    IN  IF eventTypeByte >= 240
        THEN IF eventTypeByte = 255
             THEN LET subtype == MetaSubtype(readInt8(str, q))
                      len == readletInt(str, q + 1, 0)
                  IN  IF ExpectedLength(subtype) # <<>>
                         /\ len.value # ExpectedLength(subtype)[1]
                      THEN Throw("Expected length")
                      ELSE Read(Spread(Spread(deltaTime, [type |-> "meta", subtype |-> subtype]),
                                       MetaFields(str, len.position, subtype, len.value)),
                                len.position + len.value, StatusKept(lastEventTypeByte))
             ELSE IF eventTypeByte \in {240, 247}
             THEN LET len == readletInt(str, q, 0)
                  IN  Read(Spread(deltaTime,
                                  [type |-> IF eventTypeByte = 240 THEN "sysEx"
                                            ELSE "dividedSysEx",
                                   data |-> read(str, len.position, len.value)]),
                           len.position + len.value, StatusKept(lastEventTypeByte))
             ELSE Throw("Unrecognised MIDI event type byte")
        ELSE LET running == eventTypeByte < 128
                 param1 == IF running THEN eventTypeByte ELSE readInt8(str, q)
                 r == IF running THEN q ELSE q + 1
                 status == IF running THEN lastEventTypeByte ELSE <<eventTypeByte>>
                 kind == IF status = <<>> THEN <<>> ELSE ChannelSubtype(status[1] \div 16)
             IN  IF kind = <<>> THEN Throw("Unrecognised MIDI event type")
                 ELSE LET head == Spread(deltaTime, [channel |-> status[1] % 16,
                                                     type |-> "channel"])
                          second == IF kind[3] = <<>> THEN 0 ELSE readInt8(str, r)
                          event ==
                              CASE kind[1] = "noteOn" ->
                                     Spread(head, [noteNumber |-> param1, velocity |-> second,
                                                   subtype |-> IF second = 0 THEN "noteOff"
                                                               ELSE "noteOn"])
                                [] kind[1] = "pitchBend" ->
                                     Spread(head, [subtype |-> "pitchBend",
                                                   value |-> param1 + second * 128])
                                [] kind[3] = <<>> ->
                                     Spread(head, [subtype |-> kind[1]] @@ (kind[2] :> param1))
                                [] OTHER ->
                                     Spread(head, [subtype |-> kind[1]] @@ (kind[2] :> param1)
                                                  @@ (kind[3][1] :> second))
                      IN  Read(event, IF kind[3] = <<>> THEN r ELSE r + 1, status)

\* `while (!trackStream.eof())` on the data of a track chunk: the events read so
\* far are in `track`
RECURSIVE readTrack(_, _, _, _)
readTrack(str, p, lastEventTypeByte, track) ==
    IF p >= Len(str)
    THEN [threw |-> FALSE, track |-> track, lastEventTypeByte |-> lastEventTypeByte]
    ELSE LET push(e) ==
                 IF e.threw THEN e
                 ELSE readTrack(str, e.position, e.lastEventTypeByte, Append(track, e.event))
         IN  push(readEvent(str, p, lastEventTypeByte))

\* the for loop over the track chunks from the i-th on (i counted from 0)
RECURSIVE readTracks(_, _, _, _, _, _)
readTracks(str, p, trackCount, i, lastEventTypeByte, tracks) ==
    IF i >= trackCount THEN [threw |-> FALSE, tracks |-> tracks]
    ELSE LET trackChunk == readChunk(str, p)
         IN  IF trackChunk.id # MTrk THEN Throw("Unexpected chunk - expected MTrk")
             ELSE LET t == readTrack(trackChunk.data, 0, lastEventTypeByte, <<>>)
                  IN  IF t.threw THEN t
                      ELSE readTracks(str, trackChunk.position, trackCount, i + 1,
                                      t.lastEventTypeByte, Append(tracks, t.track))

\* the header chunk is not the one of a .mid file, judged by its id alone
BadHeaderId(headerChunk) == headerChunk.id # MThd

\* headerChunk.id != 'MThd' || headerChunk.length != 6
BadHeader(headerChunk) == headerChunk.id # MThd \/ headerChunk.length # 6

\* MidiFile(data): the decoded file or the exception
MidiFile(str) ==
    LET headerChunk == readChunk(str, 0)
    IN  IF BadHeader(headerChunk)
        THEN Throw("Bad .mid file - header not found")
        ELSE LET formatType == readInt16(headerChunk.data, 0)
                 trackCount == readInt16(headerChunk.data, 2)
                 timeDivision == readInt16(headerChunk.data, 4)
             IN  IF timeDivision >= 32768
                 THEN Throw("Expressing time division in SMTPE frames is not supported yet")
                 ELSE LET t == readTracks(str, headerChunk.position, trackCount, 0, <<>>, <<>>)
                      IN  IF t.threw THEN t
                          ELSE [threw |-> FALSE,
                                header |-> [formatType |-> formatType,
                                            trackCount |-> trackCount,
                                            ticksPerBeat |-> timeDivision],
                                tracks |-> t.tracks]

\* a variable-length integer below 2^14, as a writer encodes it
VarLen(n) == IF n < 128 THEN <<n>> ELSE <<128 + n \div 128, n % 128>>

Int16(n) == <<n \div 256, n % 256>>
Int32(n) == <<n \div 16777216, (n \div 65536) % 256, (n \div 256) % 256, n % 256>>

\* the bytes of a written event; with explicit = TRUE also an event written in
\* running status gets its status byte
EventBytes(e, explicit) ==
    VarLen(e.deltaTime) \o (IF e.running /\ ~explicit THEN <<>> ELSE <<e.status>>) \o e.bytes

RECURSIVE Concat(_)
Concat(seqs) == IF seqs = <<>> THEN <<>> ELSE Head(seqs) \o Concat(Tail(seqs))

\* a chunk: id, length, data
Chunk(id, length, bytes) == id \o Int32(length) \o bytes

\* the bytes of a written file: the header chunk (a header of another length than 6
\* is filled up with zeros) and the track chunks
FileBytes(w, explicit) ==
    Chunk(w.header.id, w.header.length,
          Int16(w.header.formatType) \o Int16(Len(w.tracks)) \o Int16(w.header.timeDivision)
          \o [i \in 1..(w.header.length - 6) |-> 0])
    \o Concat([k \in 1..Len(w.tracks) |->
                  LET bytes == Concat([i \in 1..Len(w.tracks[k].events) |->
                                          EventBytes(w.tracks[k].events[i], explicit)])
                  IN  Chunk(w.tracks[k].id, Len(bytes), bytes)])

\* the events written: a noteOn, a noteOff behind a delta time of two bytes, a
\* program change (one parameter), a setTempo, a sysEx, and the status bytes that
\* stand for no event
UndefinedStatus == {241, 246, 248, 254}

WrittenEvents ==
    {[deltaTime |-> 0, status |-> 144, running |-> FALSE, bytes |-> <<60, 80>>],
     [deltaTime |-> 200, status |-> 128, running |-> FALSE, bytes |-> <<60, 0>>],
     [deltaTime |-> 0, status |-> 193, running |-> FALSE, bytes |-> <<5>>],
     [deltaTime |-> 0, status |-> 255, running |-> FALSE, bytes |-> <<81, 3, 3, 208, 144>>],
     [deltaTime |-> 0, status |-> 240, running |-> FALSE, bytes |-> <<1, 127>>]}
    \cup {[deltaTime |-> 0, status |-> b, running |-> FALSE, bytes |-> <<>>] :
             b \in UndefinedStatus}
    \cup {[deltaTime |-> 1, status |-> 0, running |-> TRUE, bytes |-> <<>>]}

\* a track as it is written: an event in running status repeats the status of the
\* channel event before it in the track (`status`, <<>> when there is none yet)
\* with parameters of its own
RECURSIVE WriteTrack(_, _, _)
WriteTrack(evs, i, status) ==
    IF i > Len(evs) THEN <<>>
    ELSE IF evs[i].running
         THEN <<[evs[i] EXCEPT !.status = status[1],
                               !.bytes = IF status[1] \div 16 \in {12, 13}
                                         THEN <<7>> ELSE <<62, 64>>]>>
              \o WriteTrack(evs, i + 1, status)
         ELSE <<evs[i]>>
              \o WriteTrack(evs, i + 1, IF evs[i].status < 240 THEN <<evs[i].status>> ELSE status)

\* running status is written only behind a channel event of the same track
RECURSIVE RunningAllowed(_, _, _)
RunningAllowed(evs, i, seen) ==
    IF i > Len(evs) THEN TRUE
    ELSE /\ evs[i].running => seen
         /\ RunningAllowed(evs, i + 1, seen \/ evs[i].status \in 128..239)

\* the defect of a file of n tracks: none, the header id, the header length, SMPTE
\* time division, or the id of the chunk of track defect - 3
Defects(n) == 0..(3 + n)

\* the file written from the tracks evs with the defect
WrittenFile(tracks, defect) ==
    [header |-> [id |-> IF defect = 1 THEN <<77, 84, 104, 120>> ELSE MThd,
                 length |-> IF defect = 2 THEN 7 ELSE 6,
                 formatType |-> 1,
                 timeDivision |-> IF defect = 3 THEN 32768 + 25 * 256 + 40 ELSE 480],
     tracks |-> [k \in 1..Len(tracks) |->
                    [id |-> IF defect = 3 + k THEN <<77, 84, 114, 120>> ELSE MTrk,
                     events |-> WriteTrack(tracks[k], 1, <<>>)]]]

\* window.atob has returned the bytes of a file of one or two tracks with up to
\* MaxFileEvents events together
InitMidiFile ==
    /\ Constructed
    /\ last = "atob"
    /\ \E n \in {1, 2}, m \in 0..MaxFileEvents :
          \E flat \in [1..m -> WrittenEvents], owner \in Owners(m, n), defect \in Defects(n) :
              LET tracks == TracksOf(flat, owner, n)
              IN  /\ \A k \in 1..n : RunningAllowed(tracks[k], 1, FALSE)
                  /\ written = WrittenFile(tracks, defect)
                  /\ data = FileBytes(written, FALSE)
    /\ midiFile = <<>>
    /\ temporal = <<>>
    /\ formattedData = <<>>

\* const midiFile = MidiFile(data), inside the try of parseDataUrl
DecodeMidiFile ==
    /\ last = "atob"
    /\ \E file \in {MidiFile(data)} :
           /\ threw' = file.threw
           /\ midiFile' = IF file.threw THEN midiFile
                           ELSE [header |-> file.header, tracks |-> file.tracks]
    /\ last' = "MidiFile"
    /\ UNCHANGED <<playervars, cbvars, fired, calls, data, temporal, formattedData, written>>

SpecMidiFile == InitMidiFile /\ [][DecodeMidiFile]_vars

\* ------------------------------------------------------------------ claims
\* C1: in every reachable state _playedEvents ++ _events is ascending by timestamp
\* (each list is ascending and the last played timestamp is <= the first pending one)
PartitionInvariant == Ascending(playedEvents \o events)

\* C2: every wake-up that dispatches (the player is still playing) dispatches the
\* lowest-timestamp pending event of that moment, the head of _events, and moves
\* exactly that event from pending to the end of played
DispatchLoopInvariant ==
    [][(last' = "wake" /\ playing) =>
         /\ Len(events) > 0
         /\ fired'[1] = events[1]
         /\ \A i \in 1..Len(events) : fired'[1].timestamp <= events[i].timestamp
         /\ events' = Tail(events)
         /\ playedEvents' = Append(playedEvents, events[1])]_vars

\* C3: play() on a player that is already playing changes nothing: no 'play'
\* callback, no new clock anchor, no further dispatch loop
PlayWhilePlayingIsNoOp ==
    [][(last' = "play" /\ playing) =>
         /\ fired' = <<>>
         /\ startingTime' = startingTime
         /\ loops' = loops
         /\ UNCHANGED <<events, playedEvents, playing>>]_vars

\* an object handed to triggerCallbacks that is an event of the timeline
IsEvent(x) == "timestamp" \in DOMAIN x
Dispatched(frd) == SelectSeq(frd, IsEvent)
Lifecycle(frd) == SelectSeq(frd, LAMBDA x : ~IsEvent(x))

\* C4: a loop that wakes up while the player is paused (pause() came during its wait)
\* exits: it dispatches nothing and leaves both lists as they are, so the awaited
\* event is still the first pending one; a play() on the then idle player suspends
\* on that first pending event, and the wake-up of a playing loop dispatches the
\* event it waited for
PausedWakeLeavesEvent ==
    [][/\ (last' = "wake" /\ ~playing) =>
            /\ Dispatched(fired') = <<>>
            /\ events' = events
            /\ playedEvents' = playedEvents
            /\ Len(loops') = Len(loops) - 1
            /\ ~playing'
       /\ (last' = "play" /\ ~playing /\ loops = <<>> /\ Len(events) > 0) =>
            /\ Len(loops') = 1
            /\ loops'[1].nextEvent = events[1]
            /\ playing'
       /\ (last' = "wake" /\ playing) =>
            \E i \in 1..Len(loops) : DueLoop(i) /\ Dispatched(fired') = <<loops[i].nextEvent>>
      ]_vars

\* C4 witness: the only loop has just woken up on a paused player and left without
\* dispatching; an event is still pending
PausedWakeSeen ==
    /\ last = "wake"
    /\ ~playing
    /\ fired = <<>>
    /\ loops = <<>>
    /\ Len(events) > 0

PauseIdempotent ==
    [][/\ (last' = "pause" /\ ~playing) =>
            /\ fired' = <<>>
            /\ UNCHANGED <<events, playedEvents, currentTime, startingTime, speed,
                           playing, duration, loops>>
       /\ (last' = "pause" /\ playing) => (fired' = <<Named("pause")>> /\ ~playing')
       /\ (last' = "pause" /\ last = "pause") => fired' = <<>>
      ]_vars

\* C7 witness: the second of two consecutive pause() calls during playback
PauseTwiceSeen ==
    /\ last = "pause"
    /\ fired = <<>>
    /\ ~playing
    /\ Len(loops) > 0
    /\ calls >= 3

\* C8: setTime(t) on a player that is not playing and whose timeline is ascending
\* leaves exactly the events before t in played and those at or after t in pending,
\* and getMidiEvents() as it was
SeekBoundary ==
    [][(last' = "setTime" /\ ~playing /\ Ascending(playedEvents \o events)) =>
         LET t == currentTime' \div Scale
         IN  /\ currentTime' = t * Scale
             /\ \A i \in 1..Len(playedEvents') : playedEvents'[i].timestamp < t
             /\ \A i \in 1..Len(events') : events'[i].timestamp >= t
             /\ playedEvents' \o events' = playedEvents \o events
      ]_vars

\* C8 witness: after a seek on a paused player an event stamped exactly at the
\* target is the first pending one, behind a played one
SeekBoundarySeen ==
    /\ last = "setTime"
    /\ ~playing
    /\ Len(playedEvents) > 0
    /\ Len(events) > 0
    /\ events[1].timestamp * Scale = currentTime

InsertionOrdering ==
    [][(last' = "addEvent" /\ ~threw' /\ ~playing /\ Ascending(playedEvents \o events)) =>
         /\ Ascending(playedEvents' \o events')
         /\ Len(playedEvents' \o events') = Len(playedEvents \o events) + 1
         /\ \A e \in Range(playedEvents \o events) : e \in Range(playedEvents' \o events')
      ]_vars

\* playback has ended at the end of the timeline
Finished == ~playing /\ events = <<>> /\ loops = <<>>

RemoveEventsExact ==
    [][last' = "removeEvents" => \A search \in SearchInputs \cup SearchInputsMore : RemoveEvents(search) =>
          LET Matches(e) == \A k \in DOMAIN search : k \in DOMAIN e /\ e[k] = search[k]
              Kept(e) == ~Matches(e)
          IN  /\ playedEvents' = SelectSeq(playedEvents, Kept)
              /\ events' = SelectSeq(events, Kept)
              /\ (search = <<>>) => (playedEvents' = <<>> /\ events' = <<>>)
      ]_vars

\* C12 witness: the first call was a removeEvents that removed the first of the two
\* loaded events and kept the second
RemoveEventsExactSeen ==
    /\ last = "removeEvents"
    /\ calls = 1
    /\ Len(playedEvents \o events) = 1
    /\ (playedEvents \o events)[1].id = 2

\* C13: getDuration() is the timestamp of the last pending event, or of the last
\* played event when nothing is pending, or 0 when the timeline is empty, after
\* every operation (so in every reachable state)
DurationInvariant ==
    duration = (IF events # <<>> THEN events[Len(events)].timestamp
                ELSE IF playedEvents # <<>> THEN playedEvents[Len(playedEvents)].timestamp
                ELSE 0)

\* `list` is made of noteOn/noteOff pairs of pairwise distinct notes, each noteOn
\* before its noteOff in the list
PairsOfDistinctNotes(list) ==
    \A i \in 1..Len(list) :
        LET same == {j \in 1..Len(list) : list[j].note = list[i].note}
        IN  /\ Cardinality(same) = 2
            /\ \E j, k \in same : /\ j < k
                                  /\ list[j].type = "noteOn"
                                  /\ list[k].type = "noteOff"

\* the position in `list` of the event of type ty and note n
IndexOf(list, ty, n) == CHOOSE i \in 1..Len(list) : list[i].type = ty /\ list[i].note = n

\* the notes of the noteOn events of `list`, in order
NoteOns(list) ==
    LET ons == SelectSeq(list, LAMBDA e : e.type = "noteOn")
    IN  [i \in 1..Len(ons) |-> ons[i].note]

RoundTripInput(list) ==
    /\ PairsOfDistinctNotes(list)
    /\ list[1].timestamp = 0
    /\ \A i \in 1..(Len(list) - 1) : list[i].timestamp < list[i + 1].timestamp

ReverseOfPairs ==
    [][(last' = "reverseMidiData" /\ ~threw' /\ PairsOfDistinctNotes(getMidiEvents)) =>
          LET E == getMidiEvents
              R == getMidiEvents'
          IN  /\ Ascending(R)
              /\ R[1].timestamp = 0
              /\ Len(R) = Len(E)
              /\ NoteOns(R) = Reverse(NoteOns(E))
              /\ \A n \in Range(NoteOns(E)) :
                    /\ IndexOf(R, "noteOn", n) < IndexOf(R, "noteOff", n)
                    /\ R[IndexOf(R, "noteOff", n)].timestamp - R[IndexOf(R, "noteOn", n)].timestamp
                         = E[IndexOf(E, "noteOff", n)].timestamp
                            - E[IndexOf(E, "noteOn", n)].timestamp
      ]_vars
\* C16: loadParsedMidi(E, k), from any state, leaves the player not playing with
\* current time 0, no played event, the pending events E in order with every note
\* increased by k, and the duration of E's last timestamp (0 for the empty E); the
\* list it returns, getMidiEvents(), is that list
LoadParsedMidiEffect ==
    [][last' = "loadParsedMidi" => \A E \in LoadInputs, k \in NoteShifts : LoadParsedMidi(E, k) =>
          LET shifted == [i \in 1..Len(E) |-> [E[i] EXCEPT !.note = E[i].note + k]]
          IN  /\ ~playing'
              /\ GetTime(playing', startingTime', speed', currentTime') = 0
              /\ playedEvents' = <<>>
              /\ events' = shifted
              /\ getMidiEvents' = shifted
              /\ duration' = (IF E = <<>> THEN 0 ELSE E[Len(E)].timestamp)
      ]_vars

\* C16 witness: the second call was a loadParsedMidi with a note shift of -21 on a
\* playing player (it fired pause before stop), and it loaded two events ending at 2
LoadParsedMidiSeen ==
    /\ last = "loadParsedMidi"
    /\ calls = 2
    /\ fired = <<Named("pause"), Named("stop")>>
    /\ Len(events) = 2
    /\ events[1].note = 39
    /\ duration = 2
    /\ ~playing

\* C17: when the decoding inside loadFromDataUrl or loadFromUint8Array throws, the
\* promise rejects and the played and pending events, the current time, the playing
\* flag and the duration are what they were before the call
FailedLoadLeavesState ==
    [][last' \in LoadFromOps =>
          \A op \in LoadFromOps, k \in NoteShifts : LoadFrom(op, <<>>, k) =>
              /\ threw'
              /\ UNCHANGED <<playedEvents, events, currentTime, startingTime, playing, duration>>
              /\ GetTime(playing', startingTime', speed', currentTime')
                   = GetTime(playing, startingTime, speed, currentTime)
      ]_vars

\* C17 witness: the second call, on a playing player with two events, was a
\* loadFromDataUrl whose promise rejected; the player still plays the two events
FailedLoadSeen ==
    /\ last = "loadFromDataUrl"
    /\ calls = 2
    /\ threw
    /\ playing
    /\ Len(playedEvents \o events) = 2

\* C18: adding or removing elements on a list that getMidiEvents() returned, or on
\* the list that was passed to loadParsedMidi, never changes what getMidiEvents()
\* returns
CallerListsNotShared ==
    [][last' \in {"push", "pop"} => getMidiEvents' = getMidiEvents]_vars

\* C19: getEventsByTimeRange(s, e) is the events of getMidiEvents() with
\* s <= timestamp <= e, in order; getNextEventsByTime(ms) is getEventsByTimeRange(t, t + ms)
\* and getPreviousEventsByTime(ms) is getEventsByTimeRange(t - ms, t) for the time t
\* that getCurrentTime() returns at that instant, also while playing
RangeQueriesFollowCurrentTime ==
    LET t == GetTime(playing, startingTime, speed, currentTime)
    IN  /\ \A s, e \in 0..MaxTs :
              getEventsByTimeRange(s * Scale, e * Scale)
                = SelectSeq(getMidiEvents,
                            LAMBDA event : s <= event.timestamp /\ event.timestamp <= e)
        /\ \A ms \in 0..MaxTs :
              /\ getNextEventsByTime(ms) = getEventsByTimeRange(t, t + ms * Scale)
              /\ getPreviousEventsByTime(ms) = getEventsByTimeRange(t - ms * Scale, t)

\* the argument of setSpeed is a number (typeof v is "number" and v is not NaN)
IsNumber(v) == Len(v) = 1

\* C20: setSpeed(v) throws when v is not a number or v <= 0 and leaves the speed as
\* it was; otherwise it sets the speed to v; the speed is positive in every state
SetSpeedValidation ==
    /\ [](speed > 0)
    /\ [][last' = "setSpeed" => \A v \in SpeedInputs : SetSpeed(v) =>
              /\ threw' = (~IsNumber(v) \/ v[1] <= 0)
              /\ threw' => speed' = speed
              /\ ~threw' => speed' = v[1]
        ]_vars

\* C30: addEvent(e) puts e into pending exactly when e.timestamp is greater than
\* the current time of the call (the time getCurrentTime() has returned when the
\* call ends) and into played otherwise, the other list staying as it was, and an
\* ascending list is still ascending with e in it, also while the player is playing
AddEventPlacement ==
    [][last' = "addEvent" =>
          \A e \in AddInputs, ticked \in BOOLEAN :
              (AddEvent(e, ticked) /\ ~threw') =>
                  /\ IF e.timestamp * Scale > currentTime'
                     THEN e \in Range(events') /\ playedEvents' = playedEvents
                     ELSE e \in Range(playedEvents') /\ events' = events
                  /\ Ascending(events) => Ascending(events')
                  /\ Ascending(playedEvents) => Ascending(playedEvents')
      ]_vars

\* the target event of a callback is contained in the event e
Contained(e, targetEvent) ==
    \A key \in DOMAIN targetEvent : key \in DOMAIN e /\ e[key] = targetEvent[key]

\* the event a call triggerCallbacks(event) is about: a name n stands for {type: n}
EventOf(event) == IF IsString(event) THEN [type |-> event.string] ELSE event

\* C21: triggerCallbacks(e) invokes, before it returns, exactly the callbacks
\* registered at the call whose target event is contained in e (a name n being
\* {type: n}), each once, in the order of registration, each with e itself, the
\* further properties of e included
TriggerInvokesMatching ==
    [][last' = "triggerCallbacks" =>
          \A event \in TriggerInputs :
              TriggerCallbacks(event) =>
                  LET e == EventOf(event)
                      matching == SelectSeq(callbacks,
                                            LAMBDA c : Contained(e, c.targetEvent))
                  IN  /\ invoked' = [i \in 1..Len(matching) |->
                                        [id |-> matching[i].id, event |-> e]]
                      /\ \A i, j \in 1..Len(invoked') :
                             i < j => invoked'[i].id < invoked'[j].id
                      /\ fired' = <<e>>
      ]_vars

\* a call with an event that has a further property has invoked the first and the
\* third of three registered callbacks, in this order
TriggerInvokesMatchingSeen ==
    /\ last = "triggerCallbacks"
    /\ Len(registered) = 3
    /\ Len(invoked) = 2
    /\ invoked[1].id = 0
    /\ invoked[2].id = 2
    /\ invoked[1].event = invoked[2].event
    /\ "customProp" \in DOMAIN invoked[1].event
    /\ invoked[1].event.customProp = "abc"

\* the ids of the callbacks registered and not removed
Remaining == (0..(Len(registered) - 1)) \ removed

\* C22: removeCallback(id) returns true exactly when a callback was registered
\* under id and not yet removed; a callback removed by removeCallback or by
\* removeAllCallbacks before a call of triggerCallbacks is not invoked by it, and
\* the callbacks not removed whose target event is contained in the event are
RemoveCallbackExact ==
    [][/\ last' = "removeCallback" =>
              \A id \in 0..MaxCallbacks :
                  RemoveCallback(id) => returned' = <<id \in Remaining>>
       /\ last' = "triggerCallbacks" =>
              \A event \in TriggerInputs :
                  TriggerCallbacks(event) =>
                      {invoked'[i].id : i \in 1..Len(invoked')} =
                          {id \in Remaining :
                              Contained(EventOf(event), registered[id + 1])}
      ]_vars

\* after the callback 0 has been removed a call invokes the callback 1 alone
RemoveCallbackSeen ==
    /\ last = "triggerCallbacks"
    /\ 0 \in removed
    /\ Len(invoked) = 1
    /\ invoked[1].id = 1
    /\ Contained(invoked[1].event, registered[1])

\* C23: with the loop idiom registered (a 'finish' callback that calls setTime(0)
\* and then play()), a step in which 'finish' fires leaves exactly one loop
\* suspended and the player playing, the timeline ascending and all of it pending,
\* and the events dispatched since the previous 'finish' are the events of the
\* timeline, each once, in timeline order
LoopRestartsSafely ==
    [][Named("finish") \in Range(fired') =>
          /\ Len(loops') = 1
          /\ playing'
          /\ ~threw'
          /\ Ascending(playedEvents' \o events')
          /\ round \o Dispatched(fired') = playedEvents' \o events'
      ]_vars

\* the Replayer has produced its list
Replayed == last \in {"Replayer", "_formatReplayerData"}

IsSetTempo(event) == event.type = "meta" /\ event.subtype = "setTempo"

\* C24: the merged list of the Replayer is non-decreasing in timestamp and its
\* first timestamp is not negative, for every file of one or more tracks with
\* non-negative delta times and setTempo events anywhere
ChronologicalInvariant ==
    Replayed =>
        /\ \A i \in 1..(Len(temporal) - 1) : temporal[i].timestamp <= temporal[i + 1].timestamp
        /\ \A i \in 1..Len(temporal) : temporal[i].timestamp >= 0

\* three events of two tracks, a setTempo among them, merged to rising timestamps
ChronologicalSeen ==
    /\ last = "Replayer"
    /\ Len(temporal) = 3
    /\ {temporal[i].track : i \in 1..3} = {0, 1}
    /\ \E i \in 1..3 : IsSetTempo(temporal[i])
    /\ temporal[1].timestamp < temporal[2].timestamp
    /\ temporal[2].timestamp < temporal[3].timestamp

\* the microseconds per beat in force before the i-th merged event: those of the
\* last setTempo among the events before it, the default when there is none
RECURSIVE TempoBefore(_)
TempoBefore(i) ==
    IF i = 1 THEN DefaultMicrosecondsPerBeat
    ELSE IF IsSetTempo(temporal[i - 1]) THEN temporal[i - 1].microsecondsPerBeat
         ELSE TempoBefore(i - 1)

\* C25: the ticks up to an event are converted at the tempo in force before the
\* event, a setTempo event included: its own timestamp is at the old tempo, and the
\* delta of the event after it is the first at the new one
TempoAppliesAfter ==
    Replayed =>
        \A i \in 1..Len(temporal) :
            temporal[i].timestamp - (IF i = 1 THEN 0 ELSE temporal[i - 1].timestamp)
                = temporal[i].ticksToEvent * TempoBefore(i)

\* the number of ticks from the start of its track to the i-th merged event
RECURSIVE TicksUpTo(_, _)
TicksUpTo(track, n) == IF n = 0 THEN 0 ELSE TicksUpTo(track, n - 1) + track[n].deltaTime

AbsoluteTick(i) ==
    LET k == temporal[i].track
    IN  TicksUpTo(midiFile.tracks[k + 1],
                  Cardinality({j \in 1..i : temporal[j].track = k}))

\* one track at 480 ticks per beat: a noteOn at tick 0, its noteOff at tick 480
MinimalFile ==
    [header |-> [ticksPerBeat |-> 480, trackCount |-> 1],
     tracks |-> <<<<[deltaTime |-> 0, type |-> "channel", subtype |-> "noteOn",
                     channel |-> 0, noteNumber |-> 60, velocity |-> 80],
                    [deltaTime |-> 480, type |-> "channel", subtype |-> "noteOff",
                     channel |-> 0, noteNumber |-> 60, velocity |-> 0]>>>>]

\* C26: in a file without setTempo the timestamp of every merged event is its
\* absolute tick * 500 / ticksPerBeat ms (timestamp * ticksPerBeat * 1000 in the
\* units of the model); the file of one noteOn at tick 0 and its noteOff at tick
\* 480, 480 ticks per beat, gives the timestamps 0 ms and 500 ms and the length 500 ms
DefaultTempoTimestamps ==
    last = "_formatReplayerData" =>
        /\ (\A i \in 1..Len(temporal) : ~IsSetTempo(temporal[i])) =>
               \A i \in 1..Len(temporal) :
                   temporal[i].timestamp = AbsoluteTick(i) * 500 * 1000
        /\ midiFile = MinimalFile =>
               /\ Len(formattedData) = 2
               /\ formattedData[1].timestamp = 0
               /\ formattedData[2].timestamp = 500 * (480 * 1000)
               /\ Millis(formattedData[2].timestamp, 480) = 500
               /\ formattedData[1].length = 500 * (480 * 1000)
               /\ Millis(formattedData[1].length, 480) = 500

\* the file of the scenario has been replayed and formatted; so has a file of two
\* tracks without setTempo
DefaultTempoSeen ==
    /\ last = "_formatReplayerData"
    /\ midiFile.header.ticksPerBeat = 480
    /\ Len(midiFile.tracks) = 1
    /\ Len(temporal) = 2
    /\ temporal[1].subtype = "noteOn" /\ temporal[1].ticksToEvent = 0
    /\ temporal[2].subtype = "noteOff" /\ temporal[2].ticksToEvent = 480
    /\ "length" \in DOMAIN formattedData[1]

\* the indices of the note events of the list of the Replayer, ascending
NoteIndices == SelectSeq([i \in 1..Len(temporal) |-> i],
                         LAMBDA i : temporal[i].subtype \in {"noteOn", "noteOff"})

\* the indices behind j of the noteOff events of the note of formattedData[j]
LaterNoteOffs(j) ==
    {n \in (j + 1)..Len(formattedData) :
        formattedData[n].type = "noteOff" /\ formattedData[n].note = formattedData[j].note}

RunningStatusDecodesAlike ==
    last = "MidiFile" =>
        LET explicit == MidiFile(FileBytes(written, TRUE))
        IN  /\ threw = explicit.threw
            /\ ~threw => /\ midiFile.tracks = explicit.tracks
                          /\ midiFile.header = explicit.header

\* a decoded track of three events: a channel event, a meta or sysEx event, and a
\* channel event written in running status that got the type and channel of the
\* first and its own parameters
RunningStatusSeen ==
    /\ last = "MidiFile"
    /\ ~threw
    /\ Len(written.tracks[1].events) = 3
    /\ written.tracks[1].events[1].status = 144
    /\ written.tracks[1].events[2].status >= 240
    /\ written.tracks[1].events[3].running
    /\ Len(data) = Len(FileBytes(written, TRUE)) - 1
    /\ midiFile.tracks[1][3].subtype = "noteOn"
    /\ midiFile.tracks[1][3].channel = 0
    /\ midiFile.tracks[1][3].noteNumber = 62
    /\ midiFile.tracks[1][3].deltaTime = 1

\* the file has one of the defects that make MidiFile throw
Defective ==
    \/ written.header.id # MThd
    \/ written.header.length # 6
    \/ written.header.timeDivision >= 32768
    \/ \E k \in 1..Len(written.tracks) :
          \/ written.tracks[k].id # MTrk
          \/ \E i \in 1..Len(written.tracks[k].events) :
                written.tracks[k].events[i].status \in (241..246) \cup (248..254)

\* C29: MidiFile throws, and nothing of the file is returned, when the header id
\* is not 'MThd' or the header length not 6, when the time division has its high
\* bit set, when the chunk of a track has another id than 'MTrk', or when an event
\* has a status byte 0xF1..0xF6 or 0xF8..0xFE; a file without these decodes, with
\* every event of every track
DecodeFailsOnDefects ==
    last = "MidiFile" =>
        /\ threw <=> Defective
        /\ threw => midiFile = <<>> /\ temporal = <<>> /\ formattedData = <<>>
        /\ ~threw =>
              /\ midiFile.header.trackCount = Len(written.tracks)
              /\ Len(midiFile.tracks) = Len(written.tracks)
              /\ \A k \in 1..Len(written.tracks) :
                    Len(midiFile.tracks[k]) = Len(written.tracks[k].events)

\* a file whose second track holds the status byte 0xF8 behind a good first track
\* has been refused
DecodeFailsSeen ==
    /\ last = "MidiFile"
    /\ threw
    /\ midiFile = <<>>
    /\ written.header.id = MThd /\ written.header.length = 6
    /\ written.header.timeDivision = 480
    /\ Len(written.tracks) = 2
    /\ \A k \in 1..2 : written.tracks[k].id = MTrk
    /\ Len(written.tracks[1].events) = 2
    /\ \A i \in 1..2 : written.tracks[1].events[i].status < 240
    /\ Len(written.tracks[2].events) = 1
    /\ written.tracks[2].events[1].status = 248

\* the number of events of track k (counted from 1) among the first n merged events
EmittedOf(k, n) == Cardinality({j \in 1..n : temporal[j].track = k - 1})

\* the merged events of track k (counted from 1), in the order of the merged list
MergedOf(k) == SelectSeq(temporal, LAMBDA e : e.track = k - 1)

\* the tick, counted from the start of the file, of the event that track k has next
\* when n events are merged
NextTick(k, n) == TicksUpTo(midiFile.tracks[k], EmittedOf(k, n) + 1)

\* the tracks that have an event left when n events are merged
Unexhausted(n) ==
    {k \in 1..Len(midiFile.tracks) : EmittedOf(k, n) < Len(midiFile.tracks[k])}

\* C31: every event the Replayer emits is the next one of the track with the fewest
\* ticks left to its next event, the lowest track index among equals; its
\* ticksToEvent is that number of ticks and its field track the index of the track;
\* the merged list holds every event of every track once, those of one track in
\* their order, and the loop ends when no track has an event left
ReplayerMerge ==
    Replayed =>
        /\ \A i \in 1..Len(temporal) :
              LET e == temporal[i].track + 1
                  elapsed == IF i = 1 THEN 0 ELSE AbsoluteTick(i - 1)
              IN  /\ e \in Unexhausted(i - 1)
                  /\ \A k \in Unexhausted(i - 1) :
                        /\ NextTick(e, i - 1) <= NextTick(k, i - 1)
                        /\ NextTick(k, i - 1) = NextTick(e, i - 1) => e <= k
                  /\ temporal[i].ticksToEvent = NextTick(e, i - 1) - elapsed
        /\ Unexhausted(Len(temporal)) = {}
        /\ \A k \in 1..Len(midiFile.tracks) :
              /\ Len(MergedOf(k)) = Len(midiFile.tracks[k])
              /\ \A j \in 1..Len(midiFile.tracks[k]) :
                    [key \in DOMAIN midiFile.tracks[k][j] |-> MergedOf(k)[j][key]]
                        = midiFile.tracks[k][j]

\* three tracks were merged: the events of the second and the third were due at the
\* same tick and the second track went first, then an event of the first track
\* followed at a later tick
ReplayerMergeSeen ==
    /\ last = "Replayer"
    /\ Len(midiFile.tracks) = 3
    /\ Len(temporal) = 3
    /\ temporal[1].track = 1 /\ temporal[2].track = 2 /\ temporal[3].track = 0
    /\ AbsoluteTick(1) = AbsoluteTick(2)
    /\ AbsoluteTick(2) < AbsoluteTick(3)
    /\ AbsoluteTick(1) > 0

\* the noteOn events of the formatted list that were given a length
WithLength == {i \in 1..Len(formattedData) : "length" \in DOMAIN formattedData[i]}

\* C32 as stated: every length that _formatReplayerData sets is greater than 0, the
\* noteOff of the pair being stamped later than the noteOn
LengthsPositive ==
    last = "_formatReplayerData" =>
        \A i \in WithLength : formattedData[i].length > 0

\* C32 amended: every length that _formatReplayerData sets on the list of the
\* Replayer is 0 or more: the noteOff of the pair comes later in the list and is
\* stamped at or after the noteOn, and the length is 0 exactly when both have the
\* same timestamp
LengthsNotNegative ==
    last = "_formatReplayerData" =>
        \A i \in WithLength :
            /\ formattedData[i].type = "noteOn"
            /\ formattedData[i].length >= 0
            /\ \E n \in (i + 1)..Len(formattedData) :
                  /\ formattedData[n].type = "noteOff"
                  /\ formattedData[n].note = formattedData[i].note
                  /\ formattedData[n].timestamp >= formattedData[i].timestamp
                  /\ formattedData[i].length
                         = formattedData[n].timestamp - formattedData[i].timestamp

\* a file of two tracks was replayed and formatted: one noteOn has its noteOff at
\* its own tick and the length 0, another has a noteOff later and a length above 0
LengthsSeen ==
    /\ last = "_formatReplayerData"
    /\ Len(midiFile.tracks) = 2
    /\ \E i \in WithLength : formattedData[i].length = 0
    /\ \E i \in WithLength : formattedData[i].length > 0

\* how often the event object e is in the list
Occurrences(list, e) == Cardinality({i \in 1..Len(list) : list[i] = e})

\* both lists hold the same event objects, each as often
SameMultiset(a, b) ==
    \A e \in Range(a) \cup Range(b) : Occurrences(a, e) = Occurrences(b, e)

\* C33: the multiset of events of getMidiEvents() is changed only by loadParsedMidi,
\* addEvent, removeEvents, reset and reverseMidiData: no play, pause, stop, setTime,
\* setSpeed, getCurrentTime, wake-up of a dispatch loop or tick of the clock adds,
\* drops or duplicates an event
EventConservation ==
    [][last' \in {"play", "pause", "stop", "setTime", "setSpeed", "getCurrentTime",
                  "wake", "tick"}
          => SameMultiset(playedEvents' \o events', playedEvents \o events)]_vars

\* C34: when a loop wakes up while a later loop is suspended (pause() and then
\* play() came during its wait), it leaves without dispatching an event and without
\* moving one, so that only the later loop dispatches the pending events
OneDispatchLoop ==
    [][(last' = "wake" /\ Len(loops) > 1)
          => /\ Dispatched(fired') = <<>>
             /\ events' = events
             /\ playedEvents' = playedEvents]_vars

\* C35: 'finish' is fired only by a play() that finds nothing pending or by a loop
\* that has just dispatched the last pending event; a loop that wakes up after
\* pause(), stop(), reset() or loadParsedMidi interrupted it does not fire it
FinishOnlyAtEnd ==
    [][Named("finish") \in Range(fired')
          => \/ last' = "play" /\ events = <<>>
             \/ last' = "wake" /\ Dispatched(fired') # <<>> /\ events' = <<>>]_vars

\* C36: a loop that wakes up right after removeEvents(search) has returned dispatches
\* only events that removeEvents left in the timeline (none that matched `search`),
\* brings no removed event back into played or pending and loses none of the events
\* that were left
RemovedEventsStayRemoved ==
    [][(last = "removeEvents" /\ last' = "wake")
          => /\ \A e \in Range(Dispatched(fired')) : e \in Range(playedEvents \o events)
             /\ SameMultiset(playedEvents' \o events', playedEvents \o events)]_vars

\* C37: in the older revision of play(), a loop that wakes up after pause() or stop()
\* came during its wait leaves with the awaited event back in the timeline
\* (getMidiEvents() holds the events it held before, the awaited one among them) and
\* without firing 'finish'
ShiftedEventKept ==
    [][(last' = "wake" /\ ~playing)
          => /\ SameMultiset(playedEvents' \o events',
                             playedEvents \o events \o <<loops[1].nextEvent>>)
             /\ Named("finish") \notin Range(fired')]_vars

\* C38: when a loop dispatches an event, the current time of the player at that
\* instant (what getCurrentTime() returns) is at or past the timestamp of the event,
\* also when setSpeed or setTime was called during the wait
NoEarlyDispatch ==
    [][last' = "wake"
          => \A e \in Range(Dispatched(fired')) :
                 GetTime(playing, startingTime, speed, currentTime) >= e.timestamp * Scale]_vars

\* what getCurrentTime() returns when it is called in this state
CurrentTimeNow == GetTime(playing, startingTime, speed, currentTime)

\* the calls that set the current time: setTime, and stop() with the calls made of it
SetsTime == {"setTime", "stop", "reset", "loadParsedMidi"}

\* C39: while the player is playing and neither setTime nor stop is called, what
\* getCurrentTime() returns never decreases from one step to the next; a setSpeed
\* call leaves it as it is at the instant of the call; and while the player is not
\* playing it stays the same
CurrentTimeMonotone ==
    [][/\ (playing /\ playing' /\ last' \notin SetsTime)
              => CurrentTimeNow' >= CurrentTimeNow
       /\ last' = "setSpeed" => CurrentTimeNow' = CurrentTimeNow
       /\ (~playing /\ ~playing' /\ last' \notin SetsTime)
              => CurrentTimeNow' = CurrentTimeNow]_vars

====
